---- MODULE Spec2Model ----
(***************************************************************************)
(* Model of aa-sdk-go: the round-robin signer rotator                      *)
(* (RoundRobinSignerProvider), the bundler receipt poll loop               *)
(* (Client.WaitForUserOperation), the JSON-RPC round trips of the bundler   *)
(* client (Client.call and the four bundler methods), the assembly and     *)
(* signing of a user operation (Client.FillAndSign, SendUserOp), the       *)
(* packing functions on bytes (PackInt, PackPaymasterAndData,              *)
(* GetPaymasterHash), the address cache (lruCache) and Client.GetAccount.  *)
(***************************************************************************)
EXTENDS Integers, Sequences, FiniteSets, TLC

(***************************************************************************)
(* Bounds of the model.                                                    *)
(***************************************************************************)
\* longest key slice handed to NewRoundRobinSignerProvider
MaxInit == 2
\* longest key sequence the rotator grows to
MaxSigners == 3
\* number of Next() calls started in one run
MaxNext == 4

\* largest configured WaitReceiptInterval, in seconds
MaxInterval == 2
\* seconds the clock keeps running past the overall timeout
MaxOverrun == 2

\* number of JSON-RPC calls started in one run, over all clients
MaxCalls == 3

\* number of steps the caller takes on one operation record in one run: calls
\* of FillAndSign / GetUserOpHash / SendUserOp and changes of a field
MaxFills == 2

\* longest paymaster payload handed to PackPaymasterAndData, in bytes
MaxPayload == 1
\* bytes missing at the end of the paymasterAndData handed to GetPaymasterHash
MaxDrop == 1

\* largest maxSize a cache is built with
MaxCapacity == 2
\* Set and Get calls made on one cache in one run
MaxCacheOps == 4
\* GetAccount calls started in one run, over all goroutines
MaxAccountCalls == 3

\* defaultWaitTimeout = 30 * time.Second, in seconds
defaultWaitTimeout == 30

\* the goroutines sharing one rotator
Procs == {"g1", "g2"}
\* the signing keys (pointer identities); Add may be handed any of them
Keys == {"ka", "kb", "kc"}

\* the nil *ecdsa.PrivateKey
Nil == "nil"
\* the value recorded for a call that ended in a runtime panic
Panic == "panic"
NoProc == "none"

\* the Client instances built by NewClient
Clients == {"c1", "c2"}

VARIABLES
    signers,    \* RoundRobinSignerProvider.signers
    index,      \* RoundRobinSignerProvider.index
    mu,         \* RoundRobinSignerProvider.mu: [w: holder of the write lock, r: holders of read locks]
    pc,         \* position of each goroutine inside Next / Add / Count
    current,    \* the local `current` of each goroutine's Next
    snap,       \* the slice value each goroutine's append has read in Add
    arg,        \* the argument of each goroutine's Add
    initial,    \* the slice the rotator was constructed with
    rets,       \* the results of the Next calls, in the order they returned
    adds,       \* the completed Add calls, in the order they returned
    cnt,        \* the result of the last Count that returned, and the Adds completed by then
    interval,   \* Config.WaitReceiptInterval, in seconds
    wpc,        \* position of the caller of WaitForUserOperation
    hash,       \* the hash WaitForUserOperation was called with
    now,        \* seconds since WaitForUserOperation created its ticker and its timeout
    tickC,      \* ticks buffered in ticker.C (a channel of capacity 1)
    cancelled,  \* the caller's context has been cancelled
    id,         \* Client.id
    fetches,    \* calls of GetUserOpReceipt made by the wait
    taken,      \* ticks the wait has received from ticker.C
    nulls,      \* fetches that came back with a null receipt and no error
    lastResp,   \* the bundler's answer to the last fetch that returned
    outcome,    \* what WaitForUserOperation returned
    clientId,   \* Client.id of each client
    rpc,        \* position of each goroutine inside Client.call, with its client, method and request id
    issued,     \* the request ids each client has handed out, in the order they were taken
    lastCall,   \* the bundler method that returned last: its method, the response and what it returned
    op,         \* the UserOperation record the caller holds and passes by pointer
    cfg,        \* the client's Config (PaymasterAddress, VerifyingSigner) and its chainId
    deployed,   \* the sender account has code on chain
    fpc,        \* position of the caller inside FillAndSign / SendUserOp
    fcall,      \* the method the caller invoked and the signer key it passed
    entry,      \* the record, Client.id and requests sent as they were when the call was
                \* made, and the call before it if the record is as that call returned it
    events,     \* collaborator calls, hashes and signatures of the current call, in order
    fres,       \* what the last call returned
    signed,     \* the operation hash the signature on the record was made over
    changed,    \* the field the caller changed after the record was signed
    fills,      \* calls and changes the caller has made on the record
    requests,   \* eth_sendUserOperation requests sent to the bundler
    cin,        \* the arguments the packing and hashing functions are applied to
    cout,       \* the function applied last and what it produced
    lru,        \* lruCache.inner: its entries, the most recently used first
    size,       \* the maxSize the cache was built with
    clast,      \* the last Set or Get made on the cache and what it returned
    cprev,      \* the Set or Get made before that one
    cbefore,    \* the entries of the cache when the last Set or Get was made
    used,       \* for each key, the number of the last Set or Get that found or stored it
    cops,       \* Set and Get calls made on the cache
    hasCache,   \* Client.lruCache is not nil
    apc,        \* position of each goroutine inside GetAccount, with its owner and salt
    aret,       \* the GetAccount call that returned last and what it returned
    acalls,     \* GetAccount calls started
    afactory    \* calls of simpleFactory.GetAddress made

rotVars == <<signers, index, mu, pc, current, snap, arg, initial, rets, adds, cnt>>

waitVars == <<interval, wpc, hash, now, tickC, cancelled, id, fetches, taken, nulls,
              lastResp, outcome>>

\* the variables of the wait other than Client.id
waitRest == <<interval, wpc, hash, now, tickC, cancelled, fetches, taken, nulls,
              lastResp, outcome>>

rpcVars == <<clientId, rpc, issued, lastCall>>

fillVars == <<op, cfg, deployed, fpc, fcall, entry, events, fres, signed, changed,
              fills, requests>>

codecVars == <<cin, cout>>

\* the cache and what is recorded about the calls made on it
cacheVars == <<lru, size, clast, cprev, cbefore, used, cops>>

\* what is recorded about the calls made on the cache
cacheLog == <<clast, cprev, cbefore, used, cops>>

accountVars == <<hasCache, apc, aret, acalls, afactory>>

vars == <<signers, index, mu, pc, current, snap, arg, initial, rets, adds, cnt,
          interval, wpc, hash, now, tickC, cancelled, id, fetches, taken, nulls,
          lastResp, outcome, clientId, rpc, issued, lastCall,
          op, cfg, deployed, fpc, fcall, entry, events, fres, signed, changed,
          fills, requests, cin, cout,
          lru, size, clast, cprev, cbefore, used, cops,
          hasCache, apc, aret, acalls, afactory>>

\* what the actions of one component leave alone
restOfRot == <<waitVars, rpcVars, fillVars, codecVars, cacheVars, accountVars>>

restOfWait == <<rotVars, rpcVars, fillVars, codecVars, cacheVars, accountVars>>

restOfRpc == <<rotVars, waitVars, fillVars, codecVars, cacheVars, accountVars>>

restOfFill == <<rotVars, waitRest, rpcVars, codecVars, cacheVars, accountVars>>

restOfCodec == <<rotVars, waitVars, rpcVars, fillVars, cacheVars, accountVars>>

restOfCache == <<rotVars, waitVars, rpcVars, fillVars, codecVars, accountVars>>

restOfAccount == <<rotVars, waitVars, rpcVars, fillVars, codecVars, cacheLog>>

(***************************************************************************)
(* Helpers                                                                 *)
(***************************************************************************)
SeqsUpTo(S, n) == UNION {[1..m -> S] : m \in 0..n}

Range(s) == {s[i] : i \in 1..Len(s)}

Distinct(s) == \A i, j \in 1..Len(s) : s[i] = s[j] => i = j

\* no fetch has returned yet
NoResp == [kind |-> "none", error |-> Nil, result |-> Nil]

\* WaitForUserOperation has not returned yet
NoOutcome == [kind |-> "none", receipt |-> Nil, err |-> Nil, hash |-> Nil]

\* a client whose WaitForUserOperation nobody calls
WaitQuiet ==
    /\ interval = 1
    /\ wpc = "idle"
    /\ hash = Nil
    /\ now = 0
    /\ tickC = 0
    /\ cancelled = FALSE
    /\ id = 0
    /\ fetches = 0
    /\ taken = 0
    /\ nulls = 0
    /\ lastResp = NoResp
    /\ outcome = NoOutcome

\* no JSON-RPC call is in progress
RpcIdle == [pc |-> "idle", client |-> Nil, method |-> Nil, id |-> 0]

\* the error field of a JSON-RPC response that carries none
NoErrorField == [t |-> "absent", s |-> Nil, code |-> Nil, message |-> Nil]

\* no bundler method has returned yet
NoCall == [method |-> Nil,
           raw |-> [kind |-> "none", error |-> NoErrorField, result |-> "absent"],
           response |-> [ok |-> FALSE, hasError |-> FALSE, code |-> Nil,
                         message |-> Nil, result |-> Nil],
           ret |-> [result |-> Nil, err |-> <<>>]]

\* clients nobody calls
RpcQuiet ==
    /\ clientId = [c \in Clients |-> 0]
    /\ rpc = [p \in Procs |-> RpcIdle]
    /\ issued = [c \in Clients |-> <<>>]
    /\ lastCall = NoCall

\* common.Address{}
ZeroAddress == "0x0000000000000000000000000000000000000000"

\* the nil *common.Address
NilAddress == "nil address"

\* the nil *big.Int
NilInt == -1

\* common.Hash{}
ZeroHash == <<"zeros", 32>>

\* no signature has been made over the record
NoHash == <<"none", 0>>

\* NewUserOpWithDefault(sender, calldata, salt): the gas and fee fields are
\* set (to values the caller may change), every other field is zero
NewUserOpWithDefault(sender, calldata, salt) ==
    [Sender |-> sender, Nonce |-> NilInt, CallData |-> calldata,
     CallGasLimit |-> 11, VerificationGasLimit |-> 12, PreVerificationGas |-> 13,
     MaxFeePerGas |-> 14, MaxPriorityFeePerGas |-> 15, Signature |-> <<>>,
     Paymaster |-> ZeroAddress, PaymasterData |-> <<>>,
     PaymasterVerificationGasLimit |-> 16, PaymasterPostOpGasLimit |-> 17,
     Factory |-> ZeroAddress, FactoryData |-> <<>>, InitCode |-> <<>>, Salt |-> salt]

\* the call data of the operation: 4 bytes of selector and its arguments
CallDataBytes == <<<<"bytes", 100, "execute">>>>

\* nothing has been called yet
NoFillCall == [mode |-> Nil, signer |-> Nil]

NoFillResult == [op |-> Nil, hash |-> ZeroHash, err |-> <<>>]

\* the record is not as a call of FillAndSign returned it
NoPrior == [again |-> FALSE, hash |-> NoHash, call |-> NoFillCall]

\* a client without paymaster, on a record nobody passes to it
FillQuiet ==
    /\ op = NewUserOpWithDefault(ZeroAddress, CallDataBytes, 0)
    /\ cfg = [PaymasterAddress |-> NilAddress, VerifyingSigner |-> Nil, chainId |-> 1]
    /\ deployed = FALSE
    /\ fpc = "idle"
    /\ fcall = NoFillCall
    /\ entry = [op |-> op, id |-> 0, requests |-> 0, prior |-> NoPrior]
    /\ events = <<>>
    /\ fres = NoFillResult
    /\ signed = NoHash
    /\ changed = Nil
    /\ fills = 0
    /\ requests = 0

\* a *big.Int: nil, or the big-endian bytes of its value without leading zeros
NilBig == [nil |-> TRUE, abs |-> <<>>]

\* no function has been applied yet
\* the zero entrypoint.PackedUserOperation
NoPacked ==
    [Sender |-> ZeroAddress, Nonce |-> NilInt, InitCode |-> <<>>, CallData |-> <<>>,
     AccountGasLimits |-> <<>>, PreVerificationGas |-> NilBig, GasFees |-> <<>>,
     PaymasterAndData |-> <<>>, Signature |-> <<>>]

NoCodecResult == [fn |-> "none", panic |-> FALSE, ok |-> FALSE, bytes |-> <<>>,
                  hash |-> ZeroHash, packed |-> NoPacked]

\* nobody applies the packing functions
CodecQuiet ==
    /\ cin = [a |-> NilBig, b |-> NilBig, paymaster |-> <<>>, data |-> <<>>, drop |-> 0,
              absent |-> "none"]
    /\ cout = NoCodecResult

\* no Set or Get has been made
NoCacheOp ==
    [op |-> "none", key |-> Nil, value |-> Nil, found |-> FALSE, evicted |-> FALSE]

\* the keys handed to Set and Get
CacheKeys == {"k1", "k2", "k3"}

\* a cache of one entry that nobody uses
CacheQuiet ==
    /\ lru = <<>>
    /\ size = 1
    /\ clast = NoCacheOp
    /\ cprev = NoCacheOp
    /\ cbefore = <<>>
    /\ used = [k \in CacheKeys |-> 0]
    /\ cops = 0

\* common.Address{} as GetAccount returns it with an error
NoAccount == <<"zero address", Nil, 0>>

\* GetAccount has not returned
NoAccountReturn ==
    [proc |-> NoProc, owner |-> Nil, salt |-> 0, addr |-> NoAccount, ok |-> FALSE,
     hit |-> FALSE, calls |-> 0]

\* a goroutine outside GetAccount
AccountIdle == [pc |-> "idle", owner |-> Nil, salt |-> 0, addr |-> NoAccount, calls |-> 0]

\* a client without cache whose GetAccount nobody calls
AccountQuiet ==
    /\ hasCache = FALSE
    /\ apc = [p \in Procs |-> AccountIdle]
    /\ aret = NoAccountReturn
    /\ acalls = 0
    /\ afactory = 0

(***************************************************************************)
(* sync.RWMutex                                                            *)
(***************************************************************************)
CanLockNoExclusion(m) == TRUE

\* Lock() proceeds when nobody holds the mutex
CanLock(m) == m.w = NoProc /\ m.r = {}

\* RLock() proceeds when no writer holds the mutex
CanRLock(m) == m.w = NoProc

(***************************************************************************)
(* RoundRobinSignerProvider                                                *)
(***************************************************************************)
NextIndexNoWrap(cur, n) == cur + 1

NextIndexOffByOne(cur, n) == (cur + 1) % (n + 1)

\* (current + 1) % uint32(len(p.signers)); the cursor and the slice length
\* stay far below 2^32 here, so the uint32 arithmetic never wraps
NextIndex(cur, n) == (cur + 1) % n

IsEmptyNever(s) == FALSE

\* len(p.signers) == 0
IsEmpty(s) == Len(s) = 0

AppendFront(s, k) == <<k>> \o s

\* append(r.signers, signer)
AppendSigner(s, k) == Append(s, k)

\* NewRoundRobinSignerProvider(signers)
RotInit ==
    /\ signers \in SeqsUpTo(Keys, MaxInit)
    /\ index = 0
    /\ mu = [w |-> NoProc, r |-> {}]
    /\ pc = [p \in Procs |-> "idle"]
    /\ current = [p \in Procs |-> 0]
    /\ snap = [p \in Procs |-> <<>>]
    /\ arg = [p \in Procs |-> Nil]
    /\ initial = signers
    /\ rets = <<>>
    /\ adds = <<>>
    /\ cnt = [val |-> Len(signers), adds |-> 0]
    /\ WaitQuiet
    /\ RpcQuiet
    /\ FillQuiet
    /\ CodecQuiet
    /\ CacheQuiet
    /\ AccountQuiet

\* the calls to Next that have been started
NextStarted == Len(rets) + Cardinality({p \in Procs : pc[p] \in {"n_load", "n_store", "n_ret"}})

\* Next: p.mu.Lock()
NextLock(p) ==
    /\ pc[p] = "idle"
    /\ NextStarted < MaxNext
    /\ CanLock(mu)
    /\ mu' = [mu EXCEPT !.w = p]
    /\ pc' = [pc EXCEPT ![p] = "n_load"]
    /\ UNCHANGED <<signers, index, current, snap, arg, initial, rets, adds, cnt>>
    /\ UNCHANGED restOfRot

\* Next: if len(p.signers) == 0 { return nil } (with the deferred Unlock);
\* otherwise current := p.index.Load()
NextLoad(p) ==
    /\ pc[p] = "n_load"
    /\ IF IsEmpty(signers)
       THEN /\ rets' = Append(rets, [key |-> Nil, idx |-> index, len |-> Len(signers),
                                     after |-> index])
            /\ mu' = [mu EXCEPT !.w = NoProc]
            /\ pc' = [pc EXCEPT ![p] = "idle"]
            /\ UNCHANGED current
       ELSE /\ current' = [current EXCEPT ![p] = index]
            /\ pc' = [pc EXCEPT ![p] = "n_store"]
            /\ UNCHANGED <<rets, mu>>
    /\ UNCHANGED <<signers, index, snap, arg, initial, adds, cnt>>
    /\ UNCHANGED restOfRot

\* Next: p.index.Store((current + 1) % uint32(len(p.signers)));
\* an integer modulo by zero is a runtime panic (the deferred Unlock runs)
NextStore(p) ==
    /\ pc[p] = "n_store"
    /\ IF Len(signers) = 0
       THEN /\ rets' = Append(rets, [key |-> Panic, idx |-> current[p], len |-> Len(signers),
                                     after |-> index])
            /\ mu' = [mu EXCEPT !.w = NoProc]
            /\ pc' = [pc EXCEPT ![p] = "idle"]
            /\ current' = [current EXCEPT ![p] = 0]
            /\ UNCHANGED index
       ELSE /\ index' = NextIndex(current[p], Len(signers))
            /\ pc' = [pc EXCEPT ![p] = "n_ret"]
            /\ UNCHANGED <<rets, mu, current>>
    /\ UNCHANGED <<signers, snap, arg, initial, adds, cnt>>
    /\ UNCHANGED restOfRot

\* Next: return p.signers[current] (with the deferred Unlock);
\* an index past the slice length is a runtime panic
NextReturn(p) ==
    /\ pc[p] = "n_ret"
    /\ rets' = Append(rets, [key |-> IF current[p] < Len(signers)
                                      THEN signers[current[p] + 1] ELSE Panic,
                             idx |-> current[p], len |-> Len(signers),
                             after |-> index])
    /\ mu' = [mu EXCEPT !.w = NoProc]
    /\ current' = [current EXCEPT ![p] = 0]
    /\ pc' = [pc EXCEPT ![p] = "idle"]
    /\ UNCHANGED <<signers, index, snap, arg, initial, adds, cnt>>
    /\ UNCHANGED restOfRot

\* Add: r.mu.Lock()
AddLock(p, k) ==
    /\ pc[p] = "idle"
    /\ Len(signers) + Cardinality({q \in Procs : pc[q] \in {"a_read", "a_write"}}) < MaxSigners
    /\ CanLock(mu)
    /\ mu' = [mu EXCEPT !.w = p]
    /\ arg' = [arg EXCEPT ![p] = k]
    /\ pc' = [pc EXCEPT ![p] = "a_read"]
    /\ UNCHANGED <<signers, index, current, snap, initial, rets, adds, cnt>>
    /\ UNCHANGED restOfRot

\* Add: append reads r.signers
AddRead(p) ==
    /\ pc[p] = "a_read"
    /\ snap' = [snap EXCEPT ![p] = signers]
    /\ pc' = [pc EXCEPT ![p] = "a_write"]
    /\ UNCHANGED <<signers, index, mu, current, arg, initial, rets, adds, cnt>>
    /\ UNCHANGED restOfRot

\* Add: r.signers = append(...); return nil (with the deferred Unlock)
AddWrite(p) ==
    /\ pc[p] = "a_write"
    /\ UNCHANGED <<index, current, initial, rets, cnt>>
    /\ signers' = AppendSigner(snap[p], arg[p])
    /\ adds' = Append(adds, [key |-> arg[p], err |-> Nil, pos |-> Len(rets),
                             before |-> signers, after |-> signers',
                             ibefore |-> index, iafter |-> index'])
    /\ mu' = [mu EXCEPT !.w = NoProc]
    /\ snap' = [snap EXCEPT ![p] = <<>>]
    /\ arg' = [arg EXCEPT ![p] = Nil]
    /\ pc' = [pc EXCEPT ![p] = "idle"]
    /\ UNCHANGED restOfRot

\* Count: r.mu.RLock()
CountRLock(p) ==
    /\ pc[p] = "idle"
    /\ CanRLock(mu)
    /\ mu' = [mu EXCEPT !.r = @ \cup {p}]
    /\ pc' = [pc EXCEPT ![p] = "c_read"]
    /\ UNCHANGED <<signers, index, current, snap, arg, initial, rets, adds, cnt>>
    /\ UNCHANGED restOfRot

\* Count: return len(r.signers) (with the deferred RUnlock)
CountReturn(p) ==
    /\ pc[p] = "c_read"
    /\ cnt' = [val |-> Len(signers), adds |-> Len(adds)]
    /\ mu' = [mu EXCEPT !.r = @ \ {p}]
    /\ pc' = [pc EXCEPT ![p] = "idle"]
    /\ UNCHANGED <<signers, index, current, snap, arg, initial, rets, adds>>
    /\ UNCHANGED restOfRot

RotNext ==
    \E p \in Procs :
        \/ NextLock(p)
        \/ NextLoad(p)
        \/ NextStore(p)
        \/ NextReturn(p)
        \/ \E k \in Keys : AddLock(p, k)
        \/ AddRead(p)
        \/ AddWrite(p)
        \/ CountRLock(p)
        \/ CountReturn(p)

\* a rotator nobody uses
RotQuiet ==
    /\ signers = <<>>
    /\ index = 0
    /\ mu = [w |-> NoProc, r |-> {}]
    /\ pc = [p \in Procs |-> "idle"]
    /\ current = [p \in Procs |-> 0]
    /\ snap = [p \in Procs |-> <<>>]
    /\ arg = [p \in Procs |-> Nil]
    /\ initial = <<>>
    /\ rets = <<>>
    /\ adds = <<>>
    /\ cnt = [val |-> 0, adds |-> 0]

(***************************************************************************)
(* Bundler client: GetUserOpReceipt and WaitForUserOperation               *)
(***************************************************************************)
\* the operation hashes a caller may wait for
Hashes == {"h1", "h2"}
\* the receipts the bundler may hold
Receipts == {"r1", "r2"}
\* the error objects the bundler may answer with
RpcErrors == {"e1"}

\* what one eth_getUserOperationReceipt round trip can come back with: the
\* transport fails, the body is no JSON-RPC response, or a response with its
\* error and result fields
Responses ==
    {[kind |-> "transport", error |-> Nil, result |-> Nil],
     [kind |-> "malformed", error |-> Nil, result |-> Nil]}
    \cup [kind : {"json"}, error : RpcErrors \cup {Nil}, result : Receipts \cup {Nil}]

GetUserOpReceiptNullIsError(resp) ==
    IF resp.kind = "transport"
    THEN [receipt |-> Nil, err |-> "error calling eth_getUserOperationReceipt"]
    ELSE IF resp.kind = "malformed"
    THEN [receipt |-> Nil, err |-> "error unmarshalling user op receipt"]
    ELSE IF resp.error # Nil
    THEN [receipt |-> Nil, err |-> "error from bundler"]
    ELSE IF resp.result = Nil
    THEN [receipt |-> Nil, err |-> "no receipt response"]
    ELSE [receipt |-> resp.result, err |-> Nil]

\* GetUserOpReceipt: the (receipt, error) pair it returns for a round trip
GetUserOpReceipt(resp) ==
    IF resp.kind = "transport"
    THEN [receipt |-> Nil, err |-> "error calling eth_getUserOperationReceipt"]
    ELSE IF resp.kind = "malformed"
    THEN [receipt |-> Nil, err |-> "error unmarshalling user op receipt"]
    ELSE IF resp.error # Nil
    THEN [receipt |-> Nil, err |-> "error from bundler"]
    ELSE [receipt |-> resp.result, err |-> Nil]

CtxDoneAlways(c, t) == TRUE

CtxDoneOnCancelOnly(c, t) == c

\* ctx.Done() of context.WithTimeout(ctx, defaultWaitTimeout): closed once
\* the caller's context is cancelled or the timeout has elapsed
CtxDone(c, t) == c \/ t >= defaultWaitTimeout

\* case <-ticker.C is ready
TickReady(c) == c > 0

\* NewClient with a Config whose WaitReceiptInterval is a positive number of
\* seconds (time.NewTicker panics otherwise)
WaitInit ==
    /\ interval \in 1..MaxInterval
    /\ wpc = "idle"
    /\ hash = Nil
    /\ now = 0
    /\ tickC = 0
    /\ cancelled = FALSE
    /\ id = 0
    /\ fetches = 0
    /\ taken = 0
    /\ nulls = 0
    /\ lastResp = NoResp
    /\ outcome = NoOutcome
    /\ RotQuiet
    /\ RpcQuiet
    /\ FillQuiet
    /\ CodecQuiet
    /\ CacheQuiet
    /\ AccountQuiet

\* WaitForUserOperation(ctx, h): the ticker and the timeout are created and
\* the loop reaches its select
WaitStart(h) ==
    /\ wpc = "idle"
    /\ wpc' = "select"
    /\ hash' = h
    /\ now' = 0
    /\ tickC' = 0
    /\ UNCHANGED <<interval, cancelled, id, fetches, taken, nulls, lastResp, outcome>>
    /\ UNCHANGED restOfWait

\* a second passes: the ticker sends on ticker.C every interval and drops the
\* tick when the channel is full; the timeout's deadline comes closer
ClockTick ==
    /\ wpc \in {"select", "fetch"}
    /\ now < defaultWaitTimeout + MaxOverrun
    /\ now' = now + 1
    /\ tickC' = IF now' % interval = 0 THEN 1 ELSE tickC
    /\ UNCHANGED <<interval, wpc, hash, cancelled, id, fetches, taken, nulls, lastResp, outcome>>
    /\ UNCHANGED restOfWait

\* the caller cancels the context it passed (possibly before the call)
Cancel ==
    /\ wpc # "done"
    /\ ~cancelled
    /\ cancelled' = TRUE
    /\ UNCHANGED <<interval, wpc, hash, now, tickC, id, fetches, taken, nulls, lastResp, outcome>>
    /\ UNCHANGED restOfWait

\* select takes case <-ticker.C and calls GetUserOpReceipt, whose call()
\* takes the next request id and sends the request without the context
SelectTick ==
    /\ wpc = "select"
    /\ TickReady(tickC)
    /\ tickC' = tickC - 1
    /\ taken' = taken + 1
    /\ fetches' = fetches + 1
    /\ id' = id + 1
    /\ wpc' = "fetch"
    /\ UNCHANGED <<interval, hash, now, cancelled, nulls, lastResp, outcome>>
    /\ UNCHANGED restOfWait

FetchReturnRetry(resp) ==
    /\ wpc = "fetch"
    /\ lastResp' = resp
    /\ LET got == GetUserOpReceipt(resp) IN
         IF got.err = Nil /\ got.receipt # Nil
         THEN /\ wpc' = "done"
              /\ outcome' = [kind |-> "receipt", receipt |-> got.receipt, err |-> Nil,
                             hash |-> Nil]
              /\ UNCHANGED nulls
         ELSE /\ wpc' = "select"
              /\ nulls' = IF got.err = Nil THEN nulls + 1 ELSE nulls
              /\ UNCHANGED outcome
    /\ UNCHANGED <<interval, hash, now, tickC, cancelled, id, fetches, taken>>
    /\ UNCHANGED restOfWait

\* GetUserOpReceipt returns: an error ends the wait, a receipt ends the wait,
\* a null receipt sends the loop back to its select
FetchReturn(resp) ==
    /\ wpc = "fetch"
    /\ lastResp' = resp
    /\ LET got == GetUserOpReceipt(resp) IN
         IF got.err # Nil
         THEN /\ wpc' = "done"
              /\ outcome' = [kind |-> "error", receipt |-> Nil,
                             err |-> <<"error getting user operation receipt", got.err>>,
                             hash |-> Nil]
              /\ UNCHANGED nulls
         ELSE IF got.receipt # Nil
         THEN /\ wpc' = "done"
              /\ outcome' = [kind |-> "receipt", receipt |-> got.receipt, err |-> Nil,
                             hash |-> Nil]
              /\ UNCHANGED nulls
         ELSE /\ wpc' = "select"
              /\ nulls' = nulls + 1
              /\ UNCHANGED outcome
    /\ UNCHANGED <<interval, hash, now, tickC, cancelled, id, fetches, taken>>
    /\ UNCHANGED restOfWait

\* select takes case <-ctx.Done()
SelectDone ==
    /\ wpc = "select"
    /\ CtxDone(cancelled, now)
    /\ wpc' = "done"
    /\ outcome' = [kind |-> "notFound", receipt |-> Nil,
                   err |-> <<"no receipt found for user operation", hash>>,
                   hash |-> hash]
    /\ UNCHANGED <<interval, hash, now, tickC, cancelled, id, fetches, taken, nulls, lastResp>>
    /\ UNCHANGED restOfWait

\* when both cases of the select are ready Go takes either
WaitNext ==
    \/ \E h \in Hashes : WaitStart(h)
    \/ ClockTick
    \/ Cancel
    \/ SelectTick
    \/ \E resp \in Responses : FetchReturn(resp)
    \/ SelectDone

SpecRotator == RotInit /\ [][RotNext]_vars

SpecWait == WaitInit /\ [][WaitNext]_vars

\* the wait under the scheduling the claim of termination supposes: time
\* passes; every receipt fetch returns; a select with a ready case takes one;
\* and, Go choosing at random among the ready cases, case <-ctx.Done() is not
\* passed over for ever when it is ready every time the loop is at its select
WaitFairness ==
    /\ WF_vars(ClockTick)
    /\ WF_vars(\E resp \in Responses : FetchReturn(resp))
    /\ WF_vars(SelectTick \/ SelectDone)
    /\ SF_vars(SelectDone)

SpecWaitFair == WaitInit /\ [][WaitNext]_vars /\ WaitFairness

(***************************************************************************)
(* Client.call and the four bundler methods                                *)
(***************************************************************************)
Methods == {"eth_getUserOperationReceipt", "eth_estimateUserOperationGas",
            "eth_supportedEntryPoints", "eth_sendUserOperation"}

\* the codes and messages a bundler puts in an error (the code is printed
\* with %d only, so a code is kept as its decimal text)
Codes == {"-32500"}
Messages == {"", "AA21 didn't pay prefund"}

\* the "error" member of a response body: missing, null, a bare JSON string
\* or an object with optional code and message
ErrorFields ==
    {NoErrorField, [t |-> "null", s |-> Nil, code |-> Nil, message |-> Nil]}
    \cup [t : {"string"}, s : Messages, code : {Nil}, message : {Nil}]
    \cup [t : {"object"}, s : {Nil}, code : Codes \cup {Nil},
           message : (Messages \ {""}) \cup {Nil}]

\* the "result" member of a response body: missing or null ("absent"), a
\* value of the type the method expects, or a value of another JSON type
ResultFields == {"absent", "value", "illTyped"}

\* what a round trip brings back: nothing (the transport failed), a body that
\* is not a JSON object, or a JSON object
RawResponses ==
    {[kind |-> "transport", error |-> NoErrorField, result |-> "absent"],
     [kind |-> "malformed", error |-> NoErrorField, result |-> "absent"]}
    \cup [kind : {"json"}, error : ErrorFields, result : ResultFields]

\* errorResponse.UnmarshalJSON on a non-null error member: a string is taken
\* as the message only when it is not empty; everything else is decoded as
\* an object, which fails for a JSON string
UnmarshalJSON(f) ==
    IF f.t = "string" /\ f.s # ""
    THEN [ok |-> TRUE, code |-> Nil, message |-> f.s]
    ELSE IF f.t = "object"
    THEN [ok |-> TRUE, code |-> f.code, message |-> f.message]
    ELSE [ok |-> FALSE, code |-> Nil, message |-> Nil]

\* json.Unmarshal(bytes, &response) into jsonRpcResponse[T]: ok is false when
\* it returns an error; Error stays nil for a missing or null error member,
\* Result keeps its zero value for a missing or null result member
UnmarshalResponse(raw) ==
    IF raw.kind # "json"
    THEN [ok |-> FALSE, hasError |-> FALSE, code |-> Nil, message |-> Nil, result |-> Nil]
    ELSE IF raw.error.t \in {"absent", "null"}
    THEN [ok |-> raw.result # "illTyped", hasError |-> FALSE, code |-> Nil,
          message |-> Nil, result |-> IF raw.result = "value" THEN "value" ELSE Nil]
    ELSE LET e == UnmarshalJSON(raw.error) IN
         [ok |-> e.ok /\ raw.result # "illTyped", hasError |-> e.ok, code |-> e.code,
          message |-> e.message, result |-> IF raw.result = "value" THEN "value" ELSE Nil]

\* errorResponse.String()
String(code, message) ==
    (IF code # Nil THEN <<"code: ", code>> ELSE <<>>)
    \o (IF message # Nil
        THEN (IF code # Nil THEN <<", ">> ELSE <<>>) \o <<"message: ", message>>
        ELSE <<>>)

\* the zero value a method returns next to an error
ZeroResult(m) == IF m = "eth_sendUserOperation" THEN "0x00" ELSE Nil

\* the value a method makes of a well-typed result member
ResultValue(m) ==
    IF m = "eth_getUserOperationReceipt" THEN "receipt"
    ELSE IF m = "eth_estimateUserOperationGas" THEN "gasEstimates"
    ELSE IF m = "eth_supportedEntryPoints" THEN "entryPoints"
    ELSE "opHash"

\* what GetUserOpReceipt, EstimateUserOpGas, SupportedEntryPoints and
\* SendUserOp return once c.call has returned: (result, error), with the
\* error as the pieces of its text and <<>> for nil
BundlerReturn(m, raw) ==
    IF raw.kind = "transport"
    THEN [result |-> ZeroResult(m), err |-> <<"error calling ", m>>]
    ELSE LET response == UnmarshalResponse(raw) IN
         IF ~response.ok
         THEN [result |-> ZeroResult(m), err |-> <<"error unmarshalling">>]
         ELSE IF response.hasError
         THEN [result |-> ZeroResult(m),
               err |-> <<"error from bundler: ">> \o String(response.code, response.message)]
         ELSE IF m = "eth_estimateUserOperationGas" /\ response.result = Nil
         THEN [result |-> Nil, err |-> <<"no gas estimates response">>]
         ELSE [result |-> IF response.result = Nil THEN ZeroResult(m) ELSE ResultValue(m),
               err |-> <<>>]

RECURSIVE IssuedIn(_)
\* the number of request ids the clients in C have handed out
IssuedIn(C) ==
    IF C = {} THEN 0
    ELSE LET c == CHOOSE x \in C : TRUE IN Len(issued[c]) + IssuedIn(C \ {c})

IdAddShared(ctr, c) == [x \in Clients |-> ctr[x] + 1]

\* c.id.Add(1) on the atomic.Uint64 of client c: one indivisible step; the
\* new value, ctr'[c], is the request id (far below 2^64 here)
IdAdd(ctr, c) == [ctr EXCEPT ![c] = @ + 1]

\* NewClient, twice: every client starts with its own zero counter
RpcInit ==
    /\ RpcQuiet
    /\ RotQuiet
    /\ WaitQuiet
    /\ FillQuiet
    /\ CodecQuiet
    /\ CacheQuiet
    /\ AccountQuiet

\* goroutine p calls method m of client c: call() takes the next request id
\* and sends the request
CallStart(p, c, m) ==
    /\ rpc[p].pc = "idle"
    /\ IssuedIn(Clients) < MaxCalls
    /\ clientId' = IdAdd(clientId, c)
    /\ rpc' = [rpc EXCEPT ![p] = [pc |-> "sent", client |-> c, method |-> m,
                                  id |-> clientId'[c]]]
    /\ issued' = [issued EXCEPT ![c] = Append(@, clientId'[c])]
    /\ UNCHANGED lastCall
    /\ UNCHANGED restOfRpc

\* the round trip of goroutine p ends and its method returns
CallReturn(p, raw) ==
    /\ rpc[p].pc = "sent"
    /\ lastCall' = [method |-> rpc[p].method, raw |-> raw,
                    response |-> UnmarshalResponse(raw),
                    ret |-> BundlerReturn(rpc[p].method, raw)]
    /\ rpc' = [rpc EXCEPT ![p] = RpcIdle]
    /\ UNCHANGED <<clientId, issued>>
    /\ UNCHANGED restOfRpc

RpcNext ==
    \/ \E p \in Procs, c \in Clients, m \in Methods : CallStart(p, c, m)
    \/ \E p \in Procs, raw \in RawResponses : CallReturn(p, raw)

SpecRpc == RpcInit /\ [][RpcNext]_vars

(***************************************************************************)
(* Byte strings, hashes and signatures                                     *)
(*                                                                         *)
(* A byte string is the sequence of the fields laid out in it; a field is  *)
(* <<kind, length in bytes, content ...>>.  Keccak-256 and ECDSA are taken *)
(* as injective: a hash is the field <<"keccak256", 32, input>>, a         *)
(* signature the field <<"sig", 65, key, digest>>.                         *)
(***************************************************************************)
RECURSIVE BytesLen(_)
\* len(b)
BytesLen(b) == IF b = <<>> THEN 0 ELSE b[1][2] + BytesLen(Tail(b))

\* b[from:], for an offset that falls between two fields
SliceToEnd(b, from, to) ==
    LET start(i) == BytesLen(SubSeq(b, 1, i - 1))
        idx == {i \in 1..Len(b) : start(i) >= from}
    IN  IF idx = {} THEN <<>>
        ELSE LET first == CHOOSE i \in idx : \A j \in idx : i <= j
             IN  [k \in 1..Cardinality(idx) |-> b[first + k - 1]]

\* b[from:to], for offsets that fall between two fields
Slice(b, from, to) ==
    LET start(i) == BytesLen(SubSeq(b, 1, i - 1))
        idx == {i \in 1..Len(b) : start(i) >= from /\ start(i) + b[i][2] <= to}
    IN  IF idx = {} THEN <<>>
        ELSE LET first == CHOOSE i \in idx : \A j \in idx : i <= j
             IN  [k \in 1..Cardinality(idx) |-> b[first + k - 1]]

\* a.Bytes() of a common.Address
AddressBytes(a) == <<<<"address", 20, a>>>>

\* common.BytesToAddress of the 20 bytes of an address
BytesToAddress(b) == b[1][3]

\* common.LeftPadBytes(n.Bytes(), 16) for 0 <= n < 2^128
LeftPadBytes16(n) == <<<<"uint", 16, n>>>>

\* new(big.Int).SetBytes(b) as an ABI uint256 word: the integer whose
\* big-endian bytes are b
BigFromBytes(b) == <<<<"uintOf", 32, b>>>>

\* the ABI words of an address, of an unsigned integer and of a bytes32
AbiAddress(a) == <<<<"address", 32, a>>>>
AbiUint(n) == <<<<"uint", 32, n>>>>
AbiBytes32(h) == <<h>>

\* crypto.Keccak256Hash(b)
Keccak256Hash(b) == <<"keccak256", 32, b>>

\* the keys handed to the client; crypto.Sign rejects badKey
SignerKeys == {"ownerKey", "badKey"}
VerifyingKeys == {"verifierKey", "badKey"}
ValidKey(k) == k # "badKey"

\* crypto.PubkeyToAddress(signer.PublicKey)
PubkeyToAddress(k) == IF k = "ownerKey" THEN "ownerAddress" ELSE "badKeyAddress"

\* SignMessage(privateKey, message): the prefix and the decimal length are
\* put before the message, the Keccak-256 of that is signed and the recovery
\* id is raised by 27; crypto.Sign may fail
SignMessage(privateKey, message) ==
    IF ~ValidKey(privateKey)
    THEN [ok |-> FALSE, sig |-> <<>>]
    ELSE [ok |-> TRUE,
          sig |-> <<<<"sig", 65, privateKey,
                     Keccak256Hash(<<<<"prefix", 28, BytesLen(message)>>>> \o message)>>>>]

\* EmptySignature = make([]byte, 65)
EmptySignature == <<<<"zeros", 65>>>>

PaymasterValidationGasOffset == 20
PaymasterPostOpGasOffset == 36
PaymasterDataOffset == 52

\* validAfter := big.NewInt(0); validUntil := big.NewInt(math.MaxInt32)
validAfter == 0
validUntil == 2147483647

\* PackInt(a, b) for a, b that are set and below 2^128
PackInt(a, b) == LeftPadBytes16(a) \o LeftPadBytes16(b)

\* PackPaymasterAndData(paymaster, verGasLimit, postOpGasLimit, data)
PackPaymasterAndData(paymaster, verGasLimit, postOpGasLimit, data) ==
    AddressBytes(paymaster) \o LeftPadBytes16(verGasLimit)
    \o LeftPadBytes16(postOpGasLimit) \o data

EncodePaymasterDataNoSignature(until, after, signature) ==
    AbiUint(until) \o AbiUint(after) \o EmptySignature

\* EncodePaymasterData(validUntil, validAfter, signature)
EncodePaymasterData(until, after, signature) ==
    AbiUint(until) \o AbiUint(after) \o signature

\* PackUserOperation(userOp): Factory, FactoryData and Salt are not packed
PackUserOperation(userOp) ==
    [Sender |-> userOp.Sender,
     Nonce |-> userOp.Nonce,
     CallData |-> userOp.CallData,
     AccountGasLimits |-> PackInt(userOp.VerificationGasLimit, userOp.CallGasLimit),
     PreVerificationGas |-> userOp.PreVerificationGas,
     GasFees |-> PackInt(userOp.MaxPriorityFeePerGas, userOp.MaxFeePerGas),
     PaymasterAndData |-> PackPaymasterAndData(userOp.Paymaster,
                              userOp.PaymasterVerificationGasLimit,
                              userOp.PaymasterPostOpGasLimit, userOp.PaymasterData),
     Signature |-> userOp.Signature,
     InitCode |-> userOp.InitCode]

HashedUserOpWithoutNonce(packed) ==
    Keccak256Hash(AbiAddress(packed.Sender)
                  \o AbiBytes32(Keccak256Hash(packed.InitCode))
                  \o AbiBytes32(Keccak256Hash(packed.CallData))
                  \o packed.AccountGasLimits
                  \o AbiUint(packed.PreVerificationGas)
                  \o packed.GasFees
                  \o AbiBytes32(Keccak256Hash(packed.PaymasterAndData)))

HashedUserOpWithSignature(packed) ==
    Keccak256Hash(AbiAddress(packed.Sender)
                  \o AbiUint(packed.Nonce)
                  \o AbiBytes32(Keccak256Hash(packed.InitCode))
                  \o AbiBytes32(Keccak256Hash(packed.CallData))
                  \o packed.AccountGasLimits
                  \o AbiUint(packed.PreVerificationGas)
                  \o packed.GasFees
                  \o AbiBytes32(Keccak256Hash(packed.PaymasterAndData))
                  \o AbiBytes32(Keccak256Hash(packed.Signature)))

\* HashedUserOp(userOp): the Signature of the packed operation is not hashed
HashedUserOp(packed) ==
    Keccak256Hash(AbiAddress(packed.Sender)
                  \o AbiUint(packed.Nonce)
                  \o AbiBytes32(Keccak256Hash(packed.InitCode))
                  \o AbiBytes32(Keccak256Hash(packed.CallData))
                  \o packed.AccountGasLimits
                  \o AbiUint(packed.PreVerificationGas)
                  \o packed.GasFees
                  \o AbiBytes32(Keccak256Hash(packed.PaymasterAndData)))

GetUserOpHashOverSignature(packed, entrypoint, chainId) ==
    Keccak256Hash(AbiBytes32(HashedUserOp(packed)) \o AbiAddress(entrypoint)
                  \o AbiUint(chainId) \o packed.Signature)

\* GetUserOpHash(packed, entrypoint, chainId)
GetUserOpHash(packed, entrypoint, chainId) ==
    Keccak256Hash(AbiBytes32(HashedUserOp(packed)) \o AbiAddress(entrypoint)
                  \o AbiUint(chainId))

\* GetPaymasterHash(packedUserOp, chainId, validUntil, validAfter)
GetPaymasterHash(packed, chainId, until, after) ==
    IF BytesLen(packed.PaymasterAndData) < PaymasterDataOffset
    THEN [ok |-> FALSE, hash |-> ZeroHash]
    ELSE [ok |-> TRUE,
          hash |-> Keccak256Hash(
              AbiAddress(packed.Sender)
              \o AbiUint(packed.Nonce)
              \o AbiBytes32(Keccak256Hash(packed.InitCode))
              \o AbiBytes32(Keccak256Hash(packed.CallData))
              \o packed.AccountGasLimits
              \o BigFromBytes(Slice(packed.PaymasterAndData,
                                    PaymasterValidationGasOffset, PaymasterDataOffset))
              \o AbiUint(packed.PreVerificationGas)
              \o packed.GasFees
              \o AbiUint(chainId)
              \o AbiAddress(BytesToAddress(Slice(packed.PaymasterAndData, 0,
                                                 PaymasterValidationGasOffset)))
              \o AbiUint(until)
              \o AbiUint(after))]

(***************************************************************************)
(* Client.FillAndSign, Client.GetUserOpHash and Client.SendUserOp          *)
(***************************************************************************)
\* Config.Entrypoint, Config.AccountFactory and the paymaster of the Config
EntrypointAddress == "entrypoint"
AccountFactory == "accountFactory"
PaymasterAddress == "paymaster"

\* the nonces the entry point may report, and the nonce a caller may set
\* itself
ChainNonces == {7}
CallerNonces == {3}

\* an init code the caller had put in the record
StaleInitCode == <<<<"bytes", 30, "stale init code">>>>

\* the records a caller starts from
FreshOps ==
    {[NewUserOpWithDefault(s, CallDataBytes, 0) EXCEPT !.Nonce = n, !.InitCode = ic] :
        s \in {ZeroAddress, "account"},
        n \in {NilInt} \cup CallerNonces,
        ic \in {<<>>, StaleInitCode}}

\* the clients: without paymaster, or with one and its verifying key
Configs ==
    {[PaymasterAddress |-> NilAddress, VerifyingSigner |-> Nil, chainId |-> 1]}
    \cup [PaymasterAddress : {PaymasterAddress}, VerifyingSigner : VerifyingKeys,
          chainId : {1}]

FillModes == {"FillAndSign", "GetUserOpHash", "SendUserOp"}

SenderIsEmptyNever(userOp) == FALSE

\* userOp.Sender == (common.Address{})
SenderIsEmpty(userOp) == userOp.Sender = ZeroAddress

NonceUnsetAlways(userOp) == TRUE

\* userOp.Nonce == nil
NonceUnset(userOp) == userOp.Nonce = NilInt

\* getInitCodeData once IsAccountDeployed has answered: nothing for a
\* deployed account, else the factory address followed by the packed
\* createAccount(owner, salt)
getInitCodeData(isDeployed, owner, salt) ==
    IF isDeployed
    THEN [initCode |-> <<>>, data |-> <<>>]
    ELSE LET data == <<<<"createAccount", 68, owner, salt>>>>
         IN  [initCode |-> AddressBytes(AccountFactory) \o data, data |-> data]

AttachInitCodeKeepsStale(userOp, got) ==
    IF BytesLen(got.initCode) # 0
    THEN [userOp EXCEPT !.InitCode = got.initCode, !.Factory = AccountFactory,
                        !.FactoryData = got.data]
    ELSE userOp

\* if len(initCode) != 0 { ... } else { userOp.InitCode = []byte{} }
AttachInitCode(userOp, got) ==
    IF BytesLen(got.initCode) # 0
    THEN [userOp EXCEPT !.InitCode = got.initCode, !.Factory = AccountFactory,
                        !.FactoryData = got.data]
    ELSE [userOp EXCEPT !.InitCode = <<>>]

\* the packed operation FillAndSign hands to GetPaymasterHash: it carries
\* the placeholder paymaster data and no signature
SponsoredPacked(userOp, placeholder) ==
    [Sender |-> userOp.Sender,
     Nonce |-> userOp.Nonce,
     InitCode |-> userOp.InitCode,
     CallData |-> userOp.CallData,
     AccountGasLimits |-> PackInt(userOp.VerificationGasLimit, userOp.CallGasLimit),
     PreVerificationGas |-> userOp.PreVerificationGas,
     GasFees |-> PackInt(userOp.MaxPriorityFeePerGas, userOp.MaxFeePerGas),
     PaymasterAndData |-> PackPaymasterAndData(userOp.Paymaster,
                              userOp.PaymasterVerificationGasLimit,
                              userOp.PaymasterPostOpGasLimit, placeholder),
     Signature |-> <<>>]

\* what FillAndSign returns when a step has failed
FillFailure(text) == [op |-> Nil, hash |-> ZeroHash, err |-> <<text>>]

\* what the method the caller invoked returns when FillAndSign has returned
\* r and no request is sent: FillAndSign returns r itself, GetUserOpHash the
\* hash or the wrapped error, SendUserOp the wrapped error
MethodReturn(mode, r) ==
    IF mode = "FillAndSign" THEN r
    ELSE IF r.err # <<>>
    THEN [op |-> Nil,
          hash |-> IF mode = "SendUserOp" THEN r.hash ELSE ZeroHash,
          err |-> <<"error fill and sign userop">> \o r.err]
    ELSE [op |-> Nil, hash |-> r.hash, err |-> <<>>]

SendsAfterFailure(mode, failed) == mode = "SendUserOp"

\* SendUserOp goes on to c.call only when FillAndSign returned no error
Sends(mode, failed) == mode = "SendUserOp" /\ ~failed

\* a client, an account that is or is not deployed, and a record
FillInit ==
    /\ op \in FreshOps
    /\ cfg \in Configs
    /\ deployed \in BOOLEAN
    /\ fpc = "idle"
    /\ fcall = NoFillCall
    /\ entry = [op |-> op, id |-> 0, requests |-> 0, prior |-> NoPrior]
    /\ events = <<>>
    /\ fres = NoFillResult
    /\ signed = NoHash
    /\ changed = Nil
    /\ fills = 0
    /\ requests = 0
    /\ RotQuiet
    /\ WaitQuiet
    /\ RpcQuiet
    /\ CodecQuiet
    /\ CacheQuiet
    /\ AccountQuiet

\* the call before this one, if its FillAndSign signed the record and the
\* caller has not changed the record since: its hash and its arguments
Prior ==
    IF events # <<>> /\ events[Len(events)][1] = "OpSign" /\ changed = Nil
    THEN [again |-> TRUE, hash |-> signed, call |-> fcall]
    ELSE NoPrior

\* the caller invokes FillAndSign, GetUserOpHash or SendUserOp on its record
\* with signer key k; FillAndSign checks the sender
FillStart(m, k) ==
    /\ fpc = "idle"
    /\ fills < MaxFills
    /\ fills' = fills + 1
    /\ fcall' = [mode |-> m, signer |-> k]
    /\ entry' = [op |-> op, id |-> id, requests |-> requests, prior |-> Prior]
    /\ events' = <<>>
    /\ changed' = Nil
    /\ fpc' = IF SenderIsEmpty(op) THEN "idle" ELSE "nonce"
    /\ fres' = IF SenderIsEmpty(op)
               THEN MethodReturn(m, FillFailure("sender address is empty"))
               ELSE fres
    /\ UNCHANGED <<op, cfg, deployed, signed, requests, id>>
    /\ UNCHANGED restOfFill

\* the nonce: c.entrypoint.GetNonce is called when the nonce is unset; it
\* fails or returns the nonce n
FillNonce(ok, n) ==
    /\ fpc = "nonce"
    /\ ~NonceUnset(op) => ok
    /\ events' = IF NonceUnset(op)
                 THEN Append(events, <<"GetNonce", op.Sender, op.Salt>>)
                 ELSE events
    /\ op' = IF NonceUnset(op) /\ ok THEN [op EXCEPT !.Nonce = n] ELSE op
    /\ fpc' = IF ok THEN "initCode" ELSE "idle"
    /\ fres' = IF ok THEN fres
               ELSE MethodReturn(fcall.mode, FillFailure("error getting nonce"))
    /\ UNCHANGED <<cfg, deployed, fcall, entry, signed, changed, fills, requests, id>>
    /\ UNCHANGED restOfFill

\* the init code: IsAccountDeployed asks the node for the sender's code; the
\* call fails or tells whether the account is deployed
FillInitCode(ok) ==
    /\ fpc = "initCode"
    /\ events' = Append(events, <<"CodeAt", op.Sender>>)
    /\ op' = IF ok
             THEN AttachInitCode(op, getInitCodeData(deployed,
                                         PubkeyToAddress(fcall.signer), op.Salt))
             ELSE op
    /\ fpc' = IF ok THEN "paymaster" ELSE "idle"
    /\ fres' = IF ok THEN fres
               ELSE MethodReturn(fcall.mode, FillFailure("error getting account init code"))
    /\ UNCHANGED <<cfg, deployed, fcall, entry, signed, changed, fills, requests, id>>
    /\ UNCHANGED restOfFill

\* the paymaster, when one is configured: the placeholder payload is
\* encoded, the paymaster is put in the record, the sponsorship hash is
\* computed and signed with the verifying key, and the payload with that
\* signature is put in the record
FillPaymaster ==
    /\ fpc = "paymaster"
    /\ IF cfg.PaymasterAddress = NilAddress
       THEN /\ fpc' = "sign"
            /\ UNCHANGED <<op, events, fres>>
       ELSE LET placeholder == EncodePaymasterData(validUntil, validAfter, EmptySignature)
                withPaymaster == [op EXCEPT !.Paymaster = cfg.PaymasterAddress]
                paymasterHash == GetPaymasterHash(SponsoredPacked(withPaymaster, placeholder),
                                                  cfg.chainId, validUntil, validAfter)
                paymasterSig == SignMessage(cfg.VerifyingSigner,
                                            AbiBytes32(paymasterHash.hash))
            IN  IF ~paymasterHash.ok
                THEN /\ op' = withPaymaster
                     /\ events' = events
                     /\ fpc' = "idle"
                     /\ fres' = MethodReturn(fcall.mode,
                                             FillFailure("error getting paymaster data"))
                ELSE IF ~paymasterSig.ok
                THEN /\ op' = withPaymaster
                     /\ events' = Append(events, <<"PaymasterHash", paymasterHash.hash>>)
                     /\ fpc' = "idle"
                     /\ fres' = MethodReturn(fcall.mode,
                                             FillFailure("error signing paymaster data"))
                ELSE /\ op' = [withPaymaster EXCEPT !.PaymasterData =
                                  EncodePaymasterData(validUntil, validAfter,
                                                      paymasterSig.sig)]
                     /\ events' = events \o
                                  << <<"PaymasterHash", paymasterHash.hash>>,
                                     <<"PaymasterSign", cfg.VerifyingSigner,
                                       paymasterHash.hash>> >>
                     /\ fpc' = "sign"
                     /\ fres' = fres
    /\ UNCHANGED <<cfg, deployed, fcall, entry, signed, changed, fills, requests, id>>
    /\ UNCHANGED restOfFill

\* the operation is packed, its hash is computed and signed with the
\* caller's key, the signature is put in the record and FillAndSign returns;
\* GetUserOpHash returns the hash, SendUserOp goes on to the bundler
FillSign ==
    /\ fpc = "sign"
    /\ LET packed == PackUserOperation(op)
           opHash == GetUserOpHash(packed, EntrypointAddress, cfg.chainId)
           sig == SignMessage(fcall.signer, AbiBytes32(opHash))
       IN  /\ events' = Append(events, <<"OpHash", opHash, packed.PaymasterAndData>>)
                        \o (IF sig.ok THEN << <<"OpSign", fcall.signer, opHash>> >>
                            ELSE <<>>)
           /\ op' = IF sig.ok THEN [op EXCEPT !.Signature = sig.sig] ELSE op
           /\ signed' = IF sig.ok THEN opHash ELSE signed
           /\ fpc' = IF Sends(fcall.mode, ~sig.ok) THEN "send" ELSE "idle"
           /\ fres' = IF Sends(fcall.mode, ~sig.ok) THEN fres
                      ELSE IF sig.ok
                      THEN MethodReturn(fcall.mode,
                                        [op |-> "userOp", hash |-> opHash, err |-> <<>>])
                      ELSE MethodReturn(fcall.mode,
                                        FillFailure("error signing user operation"))
    /\ UNCHANGED <<cfg, deployed, fcall, entry, changed, fills, requests, id>>
    /\ UNCHANGED restOfFill

\* SendUserOp: c.call("eth_sendUserOperation", ...) takes the next request
\* id and sends the request
SendCall ==
    /\ fpc = "send"
    /\ id' = id + 1
    /\ requests' = requests + 1
    /\ fpc' = "sent"
    /\ UNCHANGED <<op, cfg, deployed, fcall, entry, events, fres, signed, changed, fills>>
    /\ UNCHANGED restOfFill

\* SendUserOp: the round trip ends and SendUserOp returns
SendReturn(raw) ==
    /\ fpc = "sent"
    /\ LET r == BundlerReturn("eth_sendUserOperation", raw)
       IN  fres' = [op |-> Nil,
                    hash |-> IF r.result = ZeroResult("eth_sendUserOperation")
                             THEN ZeroHash ELSE <<"bundler", 32, r.result>>,
                    err |-> r.err]
    /\ fpc' = "idle"
    /\ UNCHANGED <<op, cfg, deployed, fcall, entry, events, signed, changed, fills,
                   requests, id>>
    /\ UNCHANGED restOfFill

\* the fields of a UserOperation
Fields == DOMAIN NewUserOpWithDefault(ZeroAddress, <<>>, 0)

\* the n-th of the values a caller may put in field f of its record
FieldValue(f, n) ==
    IF f \in {"Sender", "Paymaster", "Factory"}
    THEN <<ZeroAddress, "account", "another address">>[n]
    ELSE IF f \in {"Nonce", "Salt"}
    THEN <<0, 3, 7>>[n]
    ELSE IF f \in {"CallGasLimit", "VerificationGasLimit", "PreVerificationGas",
                   "MaxFeePerGas", "MaxPriorityFeePerGas",
                   "PaymasterVerificationGasLimit", "PaymasterPostOpGasLimit"}
    THEN <<11, 20, 21>>[n]
    ELSE << <<>>, <<<<"bytes", 5, "other bytes">>>>, StaleInitCode >>[n]

\* the caller changes one field of the record FillAndSign has signed
Mutate(f, n) ==
    /\ fpc = "idle"
    /\ fres.err = <<>>
    /\ signed # NoHash
    /\ changed = Nil
    /\ fills < MaxFills
    /\ fills' = fills + 1
    /\ FieldValue(f, n) # op[f]
    /\ op' = [op EXCEPT ![f] = FieldValue(f, n)]
    /\ changed' = f
    /\ UNCHANGED <<cfg, deployed, fpc, fcall, entry, events, fres, signed,
                   requests, id>>
    /\ UNCHANGED restOfFill

FillNext ==
    \/ \E m \in FillModes, k \in SignerKeys : FillStart(m, k)
    \/ \E ok \in BOOLEAN, n \in ChainNonces : FillNonce(ok, n)
    \/ \E ok \in BOOLEAN : FillInitCode(ok)
    \/ FillPaymaster
    \/ FillSign
    \/ SendCall
    \/ \E raw \in RawResponses : SendReturn(raw)
    \/ \E f \in Fields, n \in 1..3 : Mutate(f, n)

SpecFill == FillInit /\ [][FillNext]_vars

(***************************************************************************)
(* The packing functions on bytes.  A byte is an integer in 0..255 and a   *)
(* byte string a sequence of them; a *big.Int is nil or the big-endian     *)
(* bytes of its absolute value without leading zeros, so that values up to *)
(* and beyond 2^128 are at hand.                                           *)
(***************************************************************************)
Zeros(n) == [i \in 1..n |-> 0]

\* common.LeftPadBytes: a slice of l bytes or more is returned as it is
LeftPadBytesNoPad(slice, l) == slice

LeftPadBytes(slice, l) ==
    IF l <= Len(slice) THEN slice ELSE Zeros(l - Len(slice)) \o slice

RECURSIVE StripZeros(_)
StripZeros(buf) ==
    IF buf # <<>> /\ buf[1] = 0 THEN StripZeros(Tail(buf)) ELSE buf

\* new(big.Int).SetBytes(buf): buf read as a big-endian unsigned integer
SetBytes(buf) == [nil |-> FALSE, abs |-> StripZeros(buf)]

\* copy(result[:], src) into a zeroed array of n bytes
CopyInto(n, src) == [i \in 1..n |-> IF i <= Len(src) THEN src[i] ELSE 0]

\* a == nil || b == nil
NilDataBoth(a, b) == a.nil /\ b.nil

NilData(a, b) == a.nil \/ b.nil

\* PackInt: [panic, bytes], bytes being the common.Hash returned
PackIntBytesSwapped(a, b) ==
    IF NilData(a, b)
    THEN [panic |-> TRUE, bytes |-> <<>>]
    ELSE [panic |-> FALSE,
          bytes |-> CopyInto(32, LeftPadBytes(b.abs, 16) \o LeftPadBytes(a.abs, 16))]

PackIntBytes(a, b) ==
    IF NilData(a, b)
    THEN [panic |-> TRUE, bytes |-> <<>>]
    ELSE [panic |-> FALSE,
          bytes |-> CopyInto(32, LeftPadBytes(a.abs, 16) \o LeftPadBytes(b.abs, 16))]

\* PackPaymasterAndData: Bytes() of a nil *big.Int dereferences nil
PackPaymasterAndDataBytes(paymaster, verGasLimit, postOpGasLimit, data) ==
    IF verGasLimit.nil \/ postOpGasLimit.nil
    THEN [panic |-> TRUE, bytes |-> <<>>]
    ELSE [panic |-> FALSE,
          bytes |-> paymaster \o LeftPadBytes(verGasLimit.abs, 16)
                              \o LeftPadBytes(postOpGasLimit.abs, 16) \o data]

\* PackUserOperation on a record whose gas and fee values are *big.Int and
\* whose Paymaster and PaymasterData are byte strings; userOp may be nil:
\* [panic, packed]
PackUserOperationBytes(userOp) ==
    IF userOp.nil
    THEN [panic |-> TRUE, packed |-> NoPacked]
    ELSE LET limits == PackIntBytes(userOp.VerificationGasLimit, userOp.CallGasLimit)
             fees == PackIntBytes(userOp.MaxPriorityFeePerGas, userOp.MaxFeePerGas)
             pnd == PackPaymasterAndDataBytes(userOp.Paymaster,
                                              userOp.PaymasterVerificationGasLimit,
                                              userOp.PaymasterPostOpGasLimit,
                                              userOp.PaymasterData)
         IN IF limits.panic \/ fees.panic \/ pnd.panic
            THEN [panic |-> TRUE, packed |-> NoPacked]
            ELSE [panic |-> FALSE,
                  packed |-> [Sender |-> userOp.Sender,
                              Nonce |-> userOp.Nonce,
                              InitCode |-> userOp.InitCode,
                              CallData |-> userOp.CallData,
                              AccountGasLimits |-> limits.bytes,
                              PreVerificationGas |-> userOp.PreVerificationGas,
                              GasFees |-> fees.bytes,
                              PaymasterAndData |-> pnd.bytes,
                              Signature |-> userOp.Signature]]

\* the length check of GetPaymasterHash
PaymasterAndDataTooShortOrExact(pnd) == Len(pnd) <= PaymasterDataOffset

PaymasterAndDataTooShort(pnd) == Len(pnd) < PaymasterDataOffset

\* the paymaster address GetPaymasterHash packs
BoundPaymaster(pnd) == SubSeq(pnd, 1, PaymasterValidationGasOffset)

\* the paymasterValidationGas GetPaymasterHash packs
BoundValidationGasFirstWord(pnd) ==
    SetBytes(SubSeq(pnd, PaymasterValidationGasOffset + 1, PaymasterPostOpGasOffset))

BoundValidationGas(pnd) ==
    SetBytes(SubSeq(pnd, PaymasterValidationGasOffset + 1, PaymasterDataOffset))

\* GetPaymasterHash on a packed operation whose PaymasterAndData is a byte
\* string: [ok, hash], the hash being Keccak-256 of the packed arguments
GetPaymasterHashBytes(packed, chainId, until, after) ==
    IF PaymasterAndDataTooShort(packed.PaymasterAndData)
    THEN [ok |-> FALSE, hash |-> ZeroHash]
    ELSE [ok |-> TRUE,
          hash |-> <<"keccak256", 32,
                     [sender |-> packed.Sender,
                      nonce |-> packed.Nonce,
                      initCode |-> Keccak256Hash(packed.InitCode),
                      callData |-> Keccak256Hash(packed.CallData),
                      accountGasLimits |-> packed.AccountGasLimits,
                      paymasterValidationGas |-> BoundValidationGas(packed.PaymasterAndData),
                      preVerificationGas |-> packed.PreVerificationGas,
                      gasFees |-> packed.GasFees,
                      chainId |-> chainId,
                      paymaster |-> BoundPaymaster(packed.PaymasterAndData),
                      validUntil |-> until,
                      validAfter |-> after]>>]

\* the gas and fee values the functions are applied to: nil, 0, 1, 256,
\* 2^128 - 1 and 2^128
Max128 == [i \in 1..16 |-> 255]

Pow128 == <<1>> \o Zeros(16)

BigInts ==
    {NilBig} \cup {[nil |-> FALSE, abs |-> m] : m \in {<<>>, <<1>>, <<1, 0>>, Max128, Pow128}}

\* below 2^128 and not nil
InRange128(x) == ~x.nil /\ Len(x.abs) <= 16

PaymasterAddresses == {[i \in 1..20 |-> 170], [i \in 1..20 |-> i]}

Payloads == {[i \in 1..n |-> 200 + i] : n \in 0..MaxPayload}

\* the gas and fee inputs of PackUserOperation that PackInt takes
PackIntInputs ==
    {"VerificationGasLimit", "CallGasLimit", "MaxPriorityFeePerGas", "MaxFeePerGas"}

\* what the caller left nil: nothing, the record itself, or one gas or fee value
Absences == {"none", "userOp", "PreVerificationGas"} \cup PackIntInputs

CodecInputs ==
    [a : BigInts, b : BigInts, paymaster : PaymasterAddresses, data : Payloads,
     drop : 0..MaxDrop, absent : Absences]

\* a gas or fee value of the record: nil if the caller left it out
GasValue(absent, field, n) ==
    IF absent = field THEN NilBig ELSE [nil |-> FALSE, abs |-> <<n>>]

\* the record handed to PackUserOperation: the defaults of
\* NewUserOpWithDefault, the paymaster and its gas limits from the inputs
UserOpOf(in) ==
    [nil |-> in.absent = "userOp",
     Sender |-> "account",
     Nonce |-> 3,
     InitCode |-> <<>>,
     CallData |-> CallDataBytes,
     CallGasLimit |-> GasValue(in.absent, "CallGasLimit", 11),
     VerificationGasLimit |-> GasValue(in.absent, "VerificationGasLimit", 12),
     PreVerificationGas |-> GasValue(in.absent, "PreVerificationGas", 13),
     MaxFeePerGas |-> GasValue(in.absent, "MaxFeePerGas", 14),
     MaxPriorityFeePerGas |-> GasValue(in.absent, "MaxPriorityFeePerGas", 15),
     Paymaster |-> in.paymaster,
     PaymasterVerificationGasLimit |-> in.a,
     PaymasterPostOpGasLimit |-> in.b,
     PaymasterData |-> in.data,
     Signature |-> <<>>]

\* an otherwise well-formed packed operation around the given PaymasterAndData
PackedAround(pnd) ==
    [PackUserOperation([NewUserOpWithDefault("account", CallDataBytes, 0)
                            EXCEPT !.Nonce = 3])
        EXCEPT !.PaymasterAndData = pnd]

CodecInit ==
    /\ cin \in CodecInputs
    /\ cout = NoCodecResult
    /\ RotQuiet
    /\ WaitQuiet
    /\ RpcQuiet
    /\ FillQuiet
    /\ CacheQuiet
    /\ AccountQuiet

\* PackInt(a, b)
ApplyPackInt ==
    /\ LET r == PackIntBytes(cin.a, cin.b)
       IN cout' = [fn |-> "PackInt", panic |-> r.panic, ok |-> ~r.panic,
                   bytes |-> r.bytes, hash |-> ZeroHash, packed |-> NoPacked]
    /\ UNCHANGED cin
    /\ UNCHANGED restOfCodec

\* PackPaymasterAndData(paymaster, a, b, data)
ApplyPackPaymasterAndData ==
    /\ LET r == PackPaymasterAndDataBytes(cin.paymaster, cin.a, cin.b, cin.data)
       IN cout' = [fn |-> "PackPaymasterAndData", panic |-> r.panic, ok |-> ~r.panic,
                   bytes |-> r.bytes, hash |-> ZeroHash, packed |-> NoPacked]
    /\ UNCHANGED cin
    /\ UNCHANGED restOfCodec

\* GetPaymasterHash on what PackPaymasterAndData built, less its last drop bytes
ApplyGetPaymasterHash ==
    /\ LET r == PackPaymasterAndDataBytes(cin.paymaster, cin.a, cin.b, cin.data)
           pnd == SubSeq(r.bytes, 1, Len(r.bytes) - cin.drop)
           h == GetPaymasterHashBytes(PackedAround(pnd), 1, validUntil, validAfter)
       IN /\ ~r.panic
          /\ cout' = [fn |-> "GetPaymasterHash", panic |-> FALSE, ok |-> h.ok,
                      bytes |-> pnd, hash |-> h.hash, packed |-> NoPacked]
    /\ UNCHANGED cin
    /\ UNCHANGED restOfCodec

\* PackUserOperation(userOp)
ApplyPackUserOperation ==
    /\ LET r == PackUserOperationBytes(UserOpOf(cin))
       IN cout' = [fn |-> "PackUserOperation", panic |-> r.panic, ok |-> ~r.panic,
                   bytes |-> <<>>, hash |-> ZeroHash, packed |-> r.packed]
    /\ UNCHANGED cin
    /\ UNCHANGED restOfCodec

CodecNext ==
    \/ ApplyPackInt
    \/ ApplyPackPaymasterAndData
    \/ ApplyGetPaymasterHash
    \/ ApplyPackUserOperation

SpecCodec == CodecInit /\ [][CodecNext]_vars

(***************************************************************************)
(* The address cache: lruCache hands Get and Set to an lru.Cache of        *)
(* maxSize entries, which keeps its entries in the order of their last     *)
(* use, serves one call at a time and, when a new key makes it exceed      *)
(* maxSize, removes the entry at the old end.                              *)
(***************************************************************************)
CacheValues == {"v1", "v2"}

HeldKeys(l) == {l[i].key : i \in 1..Len(l)}

\* the position of the entry of key k in l, 0 if there is none
LruPos(l, k) ==
    IF k \in HeldKeys(l) THEN CHOOSE i \in 1..Len(l) : l[i].key = k ELSE 0

RemoveAt(l, i) == SubSeq(l, 1, i - 1) \o SubSeq(l, i + 1, Len(l))

\* l.inner.Get(key): [found, value, lru], a found entry moves to the front
LruGetNoTouch(l, k) ==
    LET i == LruPos(l, k)
    IN IF i = 0
       THEN [found |-> FALSE, value |-> Nil, lru |-> l]
       ELSE [found |-> TRUE, value |-> l[i].value, lru |-> l]

LruGet(l, k) ==
    LET i == LruPos(l, k)
    IN IF i = 0
       THEN [found |-> FALSE, value |-> Nil, lru |-> l]
       ELSE [found |-> TRUE, value |-> l[i].value, lru |-> <<l[i]>> \o RemoveAt(l, i)]

\* l.inner.Add(key, value) on a cache of n entries: [evicted, lru]; a key
\* already held gets the value and moves to the front, a new one is put in
\* front and the entry at the old end goes if there are more than n
LruAdd(l, n, k, v) ==
    LET i == LruPos(l, k)
        pushed == <<[key |-> k, value |-> v]>> \o l
    IN IF i # 0
       THEN [evicted |-> FALSE, lru |-> <<[key |-> k, value |-> v]>> \o RemoveAt(l, i)]
       ELSE IF Len(pushed) > n
            THEN [evicted |-> TRUE, lru |-> SubSeq(pushed, 1, Len(pushed) - 1)]
            ELSE [evicted |-> FALSE, lru |-> pushed]

\* NewLRUCache(maxSize) with maxSize >= 1 (it panics otherwise)
CacheInit ==
    /\ lru = <<>>
    /\ size \in 1..MaxCapacity
    /\ clast = NoCacheOp
    /\ cprev = NoCacheOp
    /\ cbefore = <<>>
    /\ used = [k \in CacheKeys |-> 0]
    /\ cops = 0
    /\ RotQuiet
    /\ WaitQuiet
    /\ RpcQuiet
    /\ FillQuiet
    /\ CodecQuiet
    /\ AccountQuiet

\* lruCache.Set(key, value)
Set(k, v) ==
    /\ cops < MaxCacheOps
    /\ LET r == LruAdd(lru, size, k, v)
       IN /\ lru' = r.lru
          /\ clast' = [op |-> "Set", key |-> k, value |-> v, found |-> FALSE,
                       evicted |-> r.evicted]
    /\ cprev' = clast
    /\ cbefore' = lru
    /\ used' = [used EXCEPT ![k] = cops + 1]
    /\ cops' = cops + 1
    /\ UNCHANGED size
    /\ UNCHANGED restOfCache

\* lruCache.Get(key)
Get(k) ==
    /\ cops < MaxCacheOps
    /\ LET r == LruGet(lru, k)
       IN /\ lru' = r.lru
          /\ clast' = [op |-> "Get", key |-> k, value |-> r.value, found |-> r.found,
                       evicted |-> FALSE]
          /\ used' = IF r.found THEN [used EXCEPT ![k] = cops + 1] ELSE used
    /\ cprev' = clast
    /\ cbefore' = lru
    /\ cops' = cops + 1
    /\ UNCHANGED size
    /\ UNCHANGED restOfCache

CacheNext ==
    \/ \E k \in CacheKeys, v \in CacheValues : Set(k, v)
    \/ \E k \in CacheKeys : Get(k)

SpecCache == CacheInit /\ [][CacheNext]_vars

(***************************************************************************)
(* Client.GetAccount: the account address of an owner and a salt, from the *)
(* cache if the client has one and the key is held, from the account       *)
(* factory otherwise.  Strings are sequences of characters.                *)
(***************************************************************************)
Owners == {"ownerA", "ownerB"}

Salts == {1, 11}

\* owner.Hex(): "0x" and 40 hexadecimal digits
OwnerHex(owner) ==
    <<"0", "x">> \o [i \in 1..40 |-> IF owner = "ownerA" THEN "a" ELSE "b"]

DigitChar(d) == <<"0", "1", "2", "3", "4", "5", "6", "7", "8", "9">>[d + 1]

\* salt.String(): the decimal digits of a salt that is not negative
RECURSIVE SaltString(_)
SaltString(salt) ==
    IF salt < 10 THEN <<DigitChar(salt)>>
    ELSE SaltString(salt \div 10) \o <<DigitChar(salt % 10)>>

\* key := fmt.Sprintf("%s-%s", owner.Hex(), salt.String())
AccountKey(owner, salt) == OwnerHex(owner) \o <<"-">> \o SaltString(salt)

\* simpleFactory.GetAddress(owner, salt) when it succeeds: the address is
\* determined by the owner and the salt
GetAddress(owner, salt) == <<"account", owner, salt>>

\* NewClient(config, cache) with a cache of NewLRUCache(size), or with nil
AccountInit ==
    /\ hasCache \in BOOLEAN
    /\ size \in 1..MaxCapacity
    /\ ~hasCache => size = 1
    /\ lru = <<>>
    /\ apc = [p \in Procs |-> AccountIdle]
    /\ aret = NoAccountReturn
    /\ acalls = 0
    /\ afactory = 0
    /\ clast = NoCacheOp
    /\ cprev = NoCacheOp
    /\ cbefore = <<>>
    /\ used = [k \in CacheKeys |-> 0]
    /\ cops = 0
    /\ RotQuiet
    /\ WaitQuiet
    /\ RpcQuiet
    /\ FillQuiet
    /\ CodecQuiet

\* GetAccount up to its call of the factory: without cache it goes to the
\* factory; with a cache it returns the entry of the key if there is one
GetAccountStart(p, owner, salt) ==
    /\ apc[p].pc = "idle"
    /\ acalls < MaxAccountCalls
    /\ acalls' = acalls + 1
    /\ IF ~hasCache
       THEN /\ apc' = [apc EXCEPT ![p] = [pc |-> "direct", owner |-> owner, salt |-> salt,
                                          addr |-> NoAccount, calls |-> 0]]
            /\ UNCHANGED <<lru, aret>>
       ELSE LET r == LruGet(lru, AccountKey(owner, salt))
            IN /\ lru' = r.lru
               /\ IF r.found
                  THEN /\ aret' = [proc |-> p, owner |-> owner, salt |-> salt,
                                   addr |-> r.value, ok |-> TRUE, hit |-> TRUE,
                                   calls |-> 0]
                       /\ UNCHANGED apc
                  ELSE /\ apc' = [apc EXCEPT ![p] = [pc |-> "factory", owner |-> owner,
                                                     salt |-> salt, addr |-> NoAccount,
                                                     calls |-> 0]]
                       /\ UNCHANGED aret
    /\ UNCHANGED <<hasCache, size, afactory>>
    /\ UNCHANGED restOfAccount

\* a failed call of the factory is stored all the same
GetAddressReturnCachesFailure(p, ok) ==
    /\ apc[p].pc \in {"direct", "factory"}
    /\ afactory' = afactory + 1
    /\ LET addr == IF ok THEN GetAddress(apc[p].owner, apc[p].salt) ELSE NoAccount
       IN IF apc[p].pc = "direct"
          THEN /\ aret' = [proc |-> p, owner |-> apc[p].owner, salt |-> apc[p].salt,
                           addr |-> addr, ok |-> ok, hit |-> FALSE,
                           calls |-> apc[p].calls + 1]
               /\ apc' = [apc EXCEPT ![p] = AccountIdle]
          ELSE /\ apc' = [apc EXCEPT ![p].pc = "set", ![p].addr = addr,
                                     ![p].calls = apc[p].calls + 1]
               /\ UNCHANGED aret
    /\ UNCHANGED <<hasCache, size, lru, acalls>>
    /\ UNCHANGED restOfAccount

\* simpleFactory.GetAddress returns: without cache GetAccount returns what it
\* got; with a cache it returns the error, or goes on to store the address
GetAddressReturn(p, ok) ==
    /\ apc[p].pc \in {"direct", "factory"}
    /\ afactory' = afactory + 1
    /\ LET addr == IF ok THEN GetAddress(apc[p].owner, apc[p].salt) ELSE NoAccount
       IN IF apc[p].pc = "direct" \/ ~ok
          THEN /\ aret' = [proc |-> p, owner |-> apc[p].owner, salt |-> apc[p].salt,
                           addr |-> addr, ok |-> ok, hit |-> FALSE,
                           calls |-> apc[p].calls + 1]
               /\ apc' = [apc EXCEPT ![p] = AccountIdle]
          ELSE /\ apc' = [apc EXCEPT ![p].pc = "set", ![p].addr = addr,
                                     ![p].calls = apc[p].calls + 1]
               /\ UNCHANGED aret
    /\ UNCHANGED <<hasCache, size, lru, acalls>>
    /\ UNCHANGED restOfAccount

\* c.lruCache.Set(key, addr) and the return of the address
GetAccountSet(p) ==
    /\ apc[p].pc = "set"
    /\ lru' = LruAdd(lru, size, AccountKey(apc[p].owner, apc[p].salt), apc[p].addr).lru
    /\ aret' = [proc |-> p, owner |-> apc[p].owner, salt |-> apc[p].salt,
                addr |-> apc[p].addr, ok |-> TRUE, hit |-> FALSE, calls |-> apc[p].calls]
    /\ apc' = [apc EXCEPT ![p] = AccountIdle]
    /\ UNCHANGED <<hasCache, size, acalls, afactory>>
    /\ UNCHANGED restOfAccount

AccountNext ==
    \/ \E p \in Procs, owner \in Owners, salt \in Salts : GetAccountStart(p, owner, salt)
    \/ \E p \in Procs, ok \in BOOLEAN : GetAddressReturn(p, ok)
    \/ \E p \in Procs : GetAccountSet(p)

SpecAccount == AccountInit /\ [][AccountNext]_vars

(***************************************************************************)
(* Properties of the rotator                                               *)
(***************************************************************************)
\* the number of Next calls among rets[from..to] that returned key k
Returned(k, from, to) == Cardinality({i \in from..to : rets[i].key = k})

\* the number of Next calls that returned the key at (0-based) position n
ReturnedAt(n) == Cardinality({i \in 1..Len(rets) : rets[i].idx = n /\ rets[i].key \in Keys})

AllIdle == \A p \in Procs : pc[p] = "idle"

\* C1: with N >= 1 keys k0..k(N-1) and no Add, the i-th sequential call to
\* Next() (i = 0, 1, ...) returns k(i mod N): after 2N calls every key was
\* returned exactly twice, and at any time the per-key return counts differ
\* by at most one.
C1_CyclicOrder ==
    (Len(adds) = 0 /\ Len(initial) >= 1) =>
        /\ \A i \in 1..Len(rets) :
              /\ rets[i].key = initial[((i - 1) % Len(initial)) + 1]
              /\ rets[i].idx = (i - 1) % Len(initial)
        /\ \A a, b \in 0..(Len(initial) - 1) :
              /\ ReturnedAt(a) - ReturnedAt(b) <= 1
              /\ Len(rets) = 2 * Len(initial) => ReturnedAt(a) = 2
        /\ Distinct(initial) =>
              \A a, b \in Range(initial) :
                  /\ Returned(a, 1, Len(rets)) - Returned(b, 1, Len(rets)) <= 1
                  /\ Len(rets) = 2 * Len(initial) => Returned(a, 1, Len(rets)) = 2

\* two distinct keys, no Add, and 2N = 4 calls to Next have returned
C1_Witness ==
    /\ Len(adds) = 0
    /\ Len(initial) = 2
    /\ Distinct(initial)
    /\ Len(rets) = 4
    /\ AllIdle

\* C2: once the concurrently issued Add and Next calls have all completed,
\* the key count is exactly the initial count plus the number of Adds, and
\* every Next returned a key that was in the set when it ran (nil only when
\* the set was empty then).
C2_NoLostUpdate ==
    /\ AllIdle => Len(signers) = Len(initial) + Len(adds)
    /\ \A i \in 1..Len(rets) :
          IF rets[i].len = 0
          THEN rets[i].key = Nil
          ELSE /\ rets[i].idx < rets[i].len
               /\ rets[i].idx < Len(signers)
               /\ rets[i].key = signers[rets[i].idx + 1]
               /\ rets[i].key \in Keys

\* two Adds and three Nexts have completed, with Next calls before, between
\* and after the Adds
C2_Witness ==
    /\ AllIdle
    /\ Len(adds) = 2
    /\ Len(rets) >= 3
    /\ adds[1].pos >= 1
    /\ adds[2].pos > adds[1].pos
    /\ Len(rets) > adds[2].pos

\* C3: the cursor is below the number of keys whenever there is a key, and
\* no Next indexes past the key sequence it observed.
C3_CursorInRange ==
    /\ Len(signers) >= 1 => index < Len(signers)
    /\ \A p \in Procs : pc[p] \in {"n_store", "n_ret"} => current[p] < Len(signers)
    /\ \A i \in 1..Len(rets) :
          /\ rets[i].key # Panic
          /\ rets[i].len >= 1 => rets[i].idx < rets[i].len

\* a Next is about to index the last key of a sequence that an Add has grown
C3_Witness ==
    /\ Len(adds) >= 1
    /\ Len(signers) >= 2
    /\ \E p \in Procs : pc[p] = "n_ret" /\ current[p] = Len(signers) - 1 /\ index = 0

\* C4: Next() on a rotator with zero keys returns nil without panicking and
\* leaves the cursor and the key sequence unchanged.
C4_EmptyNext ==
    [][\A p \in Procs :
          (pc[p] = "n_load" /\ Len(signers) = 0 /\ pc'[p] # pc[p]) =>
              /\ pc'[p] = "idle"
              /\ Len(rets') = Len(rets) + 1
              /\ rets'[Len(rets')].key = Nil
              /\ index' = index
              /\ signers' = signers]_vars

\* a Next on the empty rotator has returned nil
C4_Witness ==
    /\ \E i \in 1..Len(rets) : rets[i].key = Nil /\ rets[i].len = 0
    /\ Len(signers) = 0
    /\ AllIdle

\* C5: between two consecutive returns of the same key, every other key that
\* was in the set at the first of them is returned exactly once (the keys of
\* the sequence being pairwise distinct, so that a key names one position).
C5_NoKeySkipped ==
    Distinct(signers) =>
        \A i, j \in 1..Len(rets) :
            ( /\ i < j
              /\ rets[i].key \in Keys
              /\ rets[j].key = rets[i].key
              /\ \A l \in (i + 1)..(j - 1) : rets[l].key # rets[i].key ) =>
                \A m \in 1..rets[i].len :
                    (m <= Len(signers) /\ signers[m] # rets[i].key) =>
                        Returned(signers[m], i + 1, j - 1) = 1

\* a key is returned a second time after an Add ran between its two returns
C5_Witness ==
    /\ Distinct(signers)
    /\ Len(signers) = 3
    /\ Len(rets) = 4
    /\ rets[1].key \in Keys
    /\ rets[4].key = rets[1].key
    /\ Len(adds) >= 1
    /\ adds[Len(adds)].pos \in 1..2

\* the (0-based) position of the key of the a-th Add
Slot(a) == Len(adds[a].after) - 1

\* the Next calls after the a-th Add up to call i none of which returned its key
NotYetServed(a, i) == \A l \in (adds[a].pos + 1)..i : rets[l].idx # Slot(a)

\* C6: once Add(k) has returned, k is returned by one of the next C calls to
\* Next(), C being the count right after that Add, however further Adds and
\* Nexts interleave; until then the earlier keys are served in their
\* original order.
C6_AddedKeyServed ==
    \A a \in 1..Len(adds) :
        /\ Len(rets) >= adds[a].pos + Len(adds[a].after) =>
              \E i \in (adds[a].pos + 1)..(adds[a].pos + Len(adds[a].after)) :
                  rets[i].key = adds[a].key /\ rets[i].idx = Slot(a)
        /\ \A i \in (adds[a].pos + 1)..Len(rets) :
              NotYetServed(a, i) =>
                  /\ rets[i].idx = adds[a].ibefore + (i - adds[a].pos - 1)
                  /\ rets[i].idx < Len(adds[a].before)
                  /\ rets[i].key = adds[a].before[rets[i].idx + 1]

\* the key of an Add is served by the last call of its window, an earlier key
\* was served first and another Add ran inside the window
C6_Witness ==
    /\ Len(adds) = 2
    /\ adds[1].ibefore = 0
    /\ Len(adds[1].after) = 2
    /\ adds[2].pos = adds[1].pos + 1
    /\ Len(rets) >= adds[1].pos + 2
    /\ rets[adds[1].pos + 2].idx = 1
    /\ rets[adds[1].pos + 2].key = adds[1].key

\* C7: the key sequence is append-only: Add returns no error, appends its key
\* at the end and leaves the cursor and every earlier key in place; Next and
\* Count never change the sequence, so the count equals the initial count
\* plus the number of completed Adds.
C7_AppendOnly ==
    /\ \A a \in 1..Len(adds) :
          /\ adds[a].err = Nil
          /\ adds[a].after = Append(adds[a].before, adds[a].key)
          /\ adds[a].iafter = adds[a].ibefore
          /\ adds[a].before = IF a = 1 THEN initial ELSE adds[a - 1].after
    /\ signers = IF Len(adds) = 0 THEN initial ELSE adds[Len(adds)].after
    /\ Len(signers) = Len(initial) + Len(adds)
    /\ cnt.val = Len(initial) + cnt.adds

\* two Adds, a Next and a Count after an Add have completed
C7_Witness ==
    /\ Len(adds) = 2
    /\ Len(initial) >= 1
    /\ Len(rets) >= 2
    /\ adds[2].pos > adds[1].pos
    /\ cnt.adds >= 1
    /\ AllIdle

(***************************************************************************)
(* Properties of WaitForUserOperation                                      *)
(***************************************************************************)
\* the bundler answered "not yet settled": no error and a null result
NullOk(resp) == resp.kind = "json" /\ resp.error = Nil /\ resp.result = Nil

\* the bundler answered with a receipt and no error
HasReceipt(resp) == resp.kind = "json" /\ resp.error = Nil /\ resp.result # Nil

\* the fetch failed: transport failure, malformed body or bundler error
FetchFailed(resp) == resp.kind \in {"transport", "malformed"} \/ (resp.kind = "json" /\ resp.error # Nil)

NotFoundText == "no receipt found for user operation"

\* C8: the wait fetches once per tick it receives from the ticker of the
\* configured interval; a null receipt with no error is no error and sends
\* the loop back to polling; the wait succeeds exactly when a fetch returns a
\* non-null receipt, and returns that first non-null receipt.
C8_PollUntilReceipt ==
    /\ fetches = taken
    /\ taken + tickC <= now \div interval
    /\ fetches = nulls + (IF wpc = "fetch" THEN 1 ELSE 0)
                       + (IF outcome.kind \in {"receipt", "error"} THEN 1 ELSE 0)
    /\ (wpc \in {"select", "fetch"} /\ nulls > 0) => NullOk(lastResp)
    /\ NullOk(lastResp) => outcome.kind \in {"none", "notFound"}
    /\ outcome.kind = "receipt" <=> (wpc = "done" /\ HasReceipt(lastResp))
    /\ outcome.kind = "receipt" =>
          /\ outcome.receipt = lastResp.result
          /\ outcome.err = Nil
          /\ nulls = fetches - 1

\* the wait polled through two null receipts and then returned a receipt
C8_Witness ==
    /\ outcome.kind = "receipt"
    /\ outcome.receipt \in Receipts
    /\ nulls >= 2
    /\ ~cancelled

\* C9 as stated: 'no receipt found' is what the wait reports when the overall
\* timeout has elapsed with no receipt, it is reported only when that
\* deadline was exceeded, and a failed fetch is reported as another error.
C9_Original ==
    /\ (wpc = "done" /\ now >= defaultWaitTimeout /\ (fetches = 0 \/ NullOk(lastResp))) =>
          outcome.kind = "notFound"
    /\ outcome.kind = "notFound" =>
          /\ now >= defaultWaitTimeout
          /\ outcome.hash = hash
    /\ (wpc = "done" /\ FetchFailed(lastResp)) =>
          /\ outcome.kind = "error"
          /\ outcome.err[1] # NotFoundText

\* C9 (amended): 'no receipt found', naming the hash, is what the wait
\* reports when it ends with every fetch having returned a null receipt; it
\* is reported only when the wait's context is done, that is the overall
\* timeout has elapsed or the caller has cancelled, and a failed fetch is
\* reported as another error.
C9_NotFoundOnlyWhenDone ==
    /\ (wpc = "done" /\ (fetches = 0 \/ NullOk(lastResp))) => outcome.kind = "notFound"
    /\ outcome.kind = "notFound" =>
          /\ cancelled \/ now >= defaultWaitTimeout
          /\ fetches = 0 \/ NullOk(lastResp)
          /\ nulls = fetches
          /\ outcome.hash = hash
          /\ outcome.err = <<NotFoundText, hash>>
    /\ (wpc = "done" /\ FetchFailed(lastResp)) =>
          /\ outcome.kind = "error"
          /\ outcome.err[1] # NotFoundText

\* the overall timeout elapsed, uncancelled, after a poll that found nothing
C9_Witness ==
    /\ outcome.kind = "notFound"
    /\ ~cancelled
    /\ now >= defaultWaitTimeout
    /\ nulls >= 1

\* C10 as stated: once the caller has cancelled, the loop starts no further
\* fetch and the only step its select takes is the return, even with a tick
\* pending.
C10_Original ==
    [][cancelled =>
          /\ fetches' = fetches
          /\ (wpc = "select" /\ wpc' # wpc) => wpc' = "done"]_vars

\* C11: a failed receipt fetch during the wait (transport failure, malformed
\* body or bundler error) is never retried: the wait is over in the very
\* state the failure is returned in, its result is an error that wraps the
\* failure of that fetch, every fetch before it had returned a null receipt,
\* and no step after the failure starts another fetch.
C11_FailedFetchEndsWait ==
    FetchFailed(lastResp) =>
        /\ wpc = "done"
        /\ outcome.kind = "error"
        /\ outcome.receipt = Nil
        /\ outcome.err[1] = "error getting user operation receipt"
        /\ outcome.err[2] =
              (IF lastResp.kind = "transport"
               THEN "error calling eth_getUserOperationReceipt"
               ELSE IF lastResp.kind = "malformed"
               THEN "error unmarshalling user op receipt"
               ELSE "error from bundler")
        /\ fetches = nulls + 1
        /\ ~ENABLED SelectTick

\* the bundler answered the second fetch with an error, after one null
\* receipt, well before the timeout and with no cancellation
C11_Witness ==
    /\ lastResp.kind = "json"
    /\ lastResp.error \in RpcErrors
    /\ nulls = 1
    /\ fetches = 2
    /\ ~cancelled
    /\ now < defaultWaitTimeout
    /\ tickC = 1

(***************************************************************************)
(* Properties of the JSON-RPC round trips                                  *)
(***************************************************************************)
\* C12: the request ids of one client are strictly increasing in the order
\* its calls take them, hence unique, also when the calls are concurrent (two
\* requests in flight never carry the same id of the same client); every
\* client counts for itself, so the k-th id a client hands out is k whatever
\* the other clients have handed out.
C12_RequestIds ==
    /\ \A c \in Clients :
          /\ \A i, j \in 1..Len(issued[c]) : i < j => issued[c][i] < issued[c][j]
          /\ \A i \in 1..Len(issued[c]) : issued[c][i] = i
          /\ clientId[c] = Len(issued[c])
    /\ \A p, q \in Procs :
          (p # q /\ rpc[p].pc = "sent" /\ rpc[q].pc = "sent"
             /\ rpc[p].client = rpc[q].client) => rpc[p].id # rpc[q].id
    /\ \A p \in Procs :
          rpc[p].pc = "sent" => rpc[p].id \in Range(issued[rpc[p].client])

\* two calls of client c1 are in flight at once after client c2 has handed
\* out an id of its own
C12_Witness ==
    /\ rpc["g1"].pc = "sent" /\ rpc["g1"].client = "c1"
    /\ rpc["g2"].pc = "sent" /\ rpc["g2"].client = "c1"
    /\ issued["c1"] = <<1, 2>>
    /\ issued["c2"] = <<1>>

\* C13 as stated: for every response whose error member is a bare string s
\* and every one whose error member is an object {code, message}, decoding
\* succeeds and gives the same error shape with the message preserved:
\* message s and no code for the string, the object's code and message for
\* the object.
C13_Original ==
    (lastCall.raw.kind = "json" /\ lastCall.raw.result # "illTyped") =>
        /\ lastCall.raw.error.t = "string" =>
              /\ lastCall.response.ok
              /\ lastCall.response.hasError
              /\ lastCall.response.message = lastCall.raw.error.s
              /\ lastCall.response.code = Nil
        /\ lastCall.raw.error.t = "object" =>
              /\ lastCall.response.ok
              /\ lastCall.response.hasError
              /\ lastCall.response.message = lastCall.raw.error.message
              /\ lastCall.response.code = lastCall.raw.error.code

\* C14 as stated: for each of the four methods, a response carrying an error
\* yields an error return carrying the remote code and message and never a
\* result, whatever the result member holds; a result is returned only when
\* the error member is absent.
C14_Original ==
    lastCall.raw.kind = "json" =>
        /\ lastCall.raw.error.t \in {"string", "object"} =>
              /\ lastCall.ret.result = ZeroResult(lastCall.method)
              /\ lastCall.ret.err =
                    <<"error from bundler: ">>
                    \o (IF lastCall.raw.error.t = "string"
                        THEN <<"message: ", lastCall.raw.error.s>>
                        ELSE (IF lastCall.raw.error.code # Nil
                              THEN <<"code: ", lastCall.raw.error.code>> ELSE <<>>)
                             \o (IF lastCall.raw.error.code # Nil
                                    /\ lastCall.raw.error.message # Nil
                                 THEN <<", ">> ELSE <<>>)
                             \o (IF lastCall.raw.error.message # Nil
                                 THEN <<"message: ", lastCall.raw.error.message>>
                                 ELSE <<>>))
        /\ lastCall.ret.result # ZeroResult(lastCall.method) =>
              /\ lastCall.raw.error.t \in {"absent", "null"}
              /\ lastCall.ret.err = <<>>

(***************************************************************************)
(* Properties of FillAndSign and SendUserOp                                *)
(***************************************************************************)
\* the events of the current call that carry tag t
EventsOf(t) == {i \in 1..Len(events) : events[i][1] = t}

\* the FillAndSign of the last call has returned without error: its last
\* act was to sign the operation hash
FillSucceeded ==
    /\ fpc \in {"idle", "send", "sent"}
    /\ events # <<>>
    /\ events[Len(events)][1] = "OpSign"

\* the last call has returned and its FillAndSign did so with an error
FillFailed ==
    /\ fills > 0
    /\ fpc = "idle"
    /\ events = <<>> \/ events[Len(events)][1] # "OpSign"

\* C15: FillAndSign on a record whose sender is the zero address fails, and
\* it has then made no collaborator call (no nonce fetch, no deployment
\* check), computed no hash, made no signature and left the record exactly
\* as it was handed in; no request id is taken either.
C15_ZeroSenderFails ==
    (fills > 0 /\ entry.op.Sender = ZeroAddress) =>
        /\ fpc = "idle"
        /\ fres.err # <<>>
        /\ fres.err[Len(fres.err)] = "sender address is empty"
        /\ fres.op = Nil
        /\ fres.hash = ZeroHash
        /\ events = <<>>
        /\ op = entry.op
        /\ id = entry.id
        /\ requests = entry.requests

\* SendUserOp has been called on a record with the zero sender and no nonce
C15_Witness ==
    /\ fills > 0
    /\ entry.op.Sender = ZeroAddress
    /\ entry.op.Nonce = NilInt
    /\ fcall.mode = "SendUserOp"
    /\ fpc = "idle"

\* C16: FillAndSign (past its sender check) asks the entry point for the
\* nonce exactly when the nonce of the record is unset, once, before any
\* other collaborator call, and stores the nonce it got; a nonce supplied by
\* the caller is never overwritten, and then no nonce call is made.
C16_NonceFetchedWhenUnset ==
    (fills > 0 /\ changed = Nil) =>
        /\ Cardinality(EventsOf("GetNonce")) <= 1
        /\ entry.op.Nonce # NilInt =>
              /\ EventsOf("GetNonce") = {}
              /\ op.Nonce = entry.op.Nonce
        /\ (entry.op.Nonce = NilInt /\ entry.op.Sender # ZeroAddress /\ fpc # "nonce") =>
              /\ EventsOf("GetNonce") = {1}
              /\ events[1] = <<"GetNonce", entry.op.Sender, entry.op.Salt>>
        /\ (entry.op.Nonce = NilInt /\ (FillSucceeded \/ fpc \in {"initCode", "paymaster", "sign"})) =>
              op.Nonce \in ChainNonces
        /\ EventsOf("GetNonce") # {} => entry.op.Nonce = NilInt

\* FillAndSign has succeeded on a record whose nonce the caller had set
C16_Witness ==
    /\ entry.op.Nonce \in CallerNonces
    /\ FillSucceeded
    /\ fpc = "idle"
    /\ fres.err = <<>>
    /\ changed = Nil
    /\ op.Nonce = entry.op.Nonce

\* C17: after a successful FillAndSign, if the sender account was not
\* deployed the record carries the configured factory address, the factory
\* call data createAccount(owner, salt) and an init code equal to the factory
\* address followed by that call data; if the sender was deployed the init
\* code of the record is empty whatever the caller had put in it.
C17_InitCode ==
    (FillSucceeded /\ changed = Nil) =>
        /\ ~deployed =>
              /\ op.Factory = AccountFactory
              /\ op.FactoryData =
                    <<<<"createAccount", 68, PubkeyToAddress(fcall.signer), op.Salt>>>>
              /\ op.InitCode = <<<<"address", 20, AccountFactory>>>> \o op.FactoryData
        /\ deployed => op.InitCode = <<>>

\* FillAndSign has succeeded for a deployed sender on a record the caller
\* had put an init code in
C17_Witness ==
    /\ FillSucceeded
    /\ changed = Nil
    /\ deployed
    /\ entry.op.InitCode = StaleInitCode
    /\ op.InitCode = <<>>

\* C18: when a paymaster is configured, the sponsorship hash is signed with
\* the verifying key before the operation hash is computed, and the
\* operation hash (the one the caller's key then signs) is computed over a
\* paymasterAndData whose payload is validUntil, validAfter and that
\* signature of the sponsorship hash; the empty placeholder signature is
\* nowhere in it.
C18_PaymasterSignedFirst ==
    cfg.PaymasterAddress # NilAddress =>
        \A j \in EventsOf("OpHash") :
            /\ \E i \in EventsOf("PaymasterSign") :
                  /\ i < j
                  /\ events[i][2] = cfg.VerifyingSigner
                  /\ \E h \in EventsOf("PaymasterHash") : h < i /\ events[h][2] = events[i][3]
                  /\ events[j][3] =
                        <<<<"address", 20, cfg.PaymasterAddress>>,
                          <<"uint", 16, entry.op.PaymasterVerificationGasLimit>>,
                          <<"uint", 16, entry.op.PaymasterPostOpGasLimit>>,
                          <<"uint", 32, validUntil>>,
                          <<"uint", 32, validAfter>>,
                          <<"sig", 65, cfg.VerifyingSigner,
                            <<"keccak256", 32,
                              <<<<"prefix", 28, 32>>, events[i][3]>>>>>>>>
            /\ \A k \in 1..Len(events[j][3]) : events[j][3][k][1] # "zeros"
            /\ \A g \in EventsOf("OpSign") :
                  /\ g > j
                  /\ events[g] = <<"OpSign", fcall.signer, events[j][2]>>

\* with a paymaster configured, FillAndSign has signed the operation hash
C18_Witness ==
    /\ cfg.PaymasterAddress # NilAddress
    /\ FillSucceeded
    /\ fpc = "idle"
    /\ EventsOf("PaymasterSign") # {}

\* C19: if a step of FillAndSign fails it returns an error, no operation and
\* the zero hash, and the record carries the signature it had when it was
\* handed in; GetUserOpHash and SendUserOp return that error wrapped, and
\* SendUserOp has sent no request to the bundler and taken no request id.
\* No signature is attached and no request id taken while FillAndSign runs.
C19_FailureAborts ==
    /\ FillFailed =>
          /\ fres.err # <<>>
          /\ fres.err[Len(fres.err)] \in
                {"sender address is empty", "error getting nonce",
                 "error getting account init code", "error getting paymaster data",
                 "error signing paymaster data", "error signing user operation"}
          /\ fcall.mode # "FillAndSign" =>
                fres.err[1] = "error fill and sign userop"
          /\ fres.op = Nil
          /\ fres.hash = ZeroHash
          /\ op.Signature = entry.op.Signature
          /\ id = entry.id
          /\ requests = entry.requests
    /\ fpc \in {"nonce", "initCode", "paymaster", "sign"} =>
          /\ op.Signature = entry.op.Signature
          /\ id = entry.id
          /\ requests = entry.requests

\* SendUserOp has returned after the signing of the operation hash failed,
\* the paymaster having signed before
C19_Witness ==
    /\ FillFailed
    /\ fcall.mode = "SendUserOp"
    /\ cfg.PaymasterAddress # NilAddress
    /\ EventsOf("PaymasterSign") # {}
    /\ fres.err = <<"error fill and sign userop", "error signing user operation">>

\* the fields of the record that PackUserOperation puts in the packed
\* operation and HashedUserOp hashes
HashedFields ==
    {"Sender", "Nonce", "InitCode", "CallData", "VerificationGasLimit", "CallGasLimit",
     "PreVerificationGas", "MaxPriorityFeePerGas", "MaxFeePerGas", "Paymaster",
     "PaymasterVerificationGasLimit", "PaymasterPostOpGasLimit", "PaymasterData"}

\* C20 as stated: once the record has been packed and signed, changing any
\* single field of it changes the operation hash, so the signature no longer
\* matches.
C20_Original ==
    changed # Nil =>
        GetUserOpHash(PackUserOperation(op), EntrypointAddress, cfg.chainId) # signed

\* C20 (amended): once the record has been packed and signed, changing any
\* single field that enters the packed form (sender, nonce, init code, call
\* data, the gas limits and fees, paymaster, paymaster gas limits, paymaster
\* data) changes the operation hash, so the signature no longer matches;
\* changing Signature, Factory, FactoryData or Salt leaves the operation hash
\* as it was.
C20_HashedFieldsCovered ==
    changed # Nil =>
        /\ changed \in HashedFields =>
              GetUserOpHash(PackUserOperation(op), EntrypointAddress, cfg.chainId) # signed
        /\ changed \in {"Signature", "Factory", "FactoryData", "Salt"} =>
              GetUserOpHash(PackUserOperation(op), EntrypointAddress, cfg.chainId) = signed

\* the caller has changed the nonce of a record signed with a paymaster
C20_Witness ==
    /\ changed = "Nonce"
    /\ cfg.PaymasterAddress # NilAddress
    /\ signed # NoHash
    /\ op.Signature # <<>>


\* the sponsorship hash of the operation the record now packs to
SponsorshipHashNow ==
    GetPaymasterHash(PackUserOperation(op), cfg.chainId, validUntil, validAfter)

\* the record is as the FillAndSign of the last call left it, signed, with
\* the paymaster's signature in it
SponsoredAndSigned ==
    /\ FillSucceeded
    /\ changed = Nil
    /\ cfg.PaymasterAddress # NilAddress

\* C28: the sponsorship hash does not depend on the Signature of the packed
\* operation nor on paymasterAndData from byte 52 on, so the hash that
\* FillAndSign computed and had signed, over the placeholder payload, is the
\* sponsorship hash of the operation it returns, which carries the
\* paymaster's signature and the caller's
C28_SponsorshipHashIgnoresSignatures ==
    SponsoredAndSigned =>
        /\ SponsorshipHashNow.ok
        /\ \A i \in EventsOf("PaymasterHash") : events[i][2] = SponsorshipHashNow.hash
        /\ \A i \in EventsOf("PaymasterSign") : events[i][3] = SponsorshipHashNow.hash
        /\ \A sig \in {<<>>, EmptySignature}, data \in {<<>>, EmptySignature, op.Signature} :
              LET packed == PackUserOperation(op)
                  other == [packed EXCEPT
                               !.Signature = sig,
                               !.PaymasterAndData =
                                   Slice(packed.PaymasterAndData, 0, PaymasterDataOffset)
                                   \o data]
              IN GetPaymasterHash(other, cfg.chainId, validUntil, validAfter)
                     = SponsorshipHashNow

\* FillAndSign has returned an operation that holds the paymaster's
\* signature in its paymaster data and the caller's in Signature
C28_Witness ==
    /\ SponsoredAndSigned
    /\ fpc = "idle"
    /\ op.Signature # <<>>
    /\ op.PaymasterData # EncodePaymasterData(validUntil, validAfter, EmptySignature)
    /\ BytesLen(op.PaymasterData) > BytesLen(EmptySignature)
    /\ EventsOf("PaymasterHash") # {}

\* C29: the hash a successful FillAndSign returns (and GetUserOpHash hands
\* on) is the operation hash of the record as returned, signature included:
\* GetUserOpHash(PackUserOperation(op), entry point, chain id)
C29_ReturnedHashIsOpHash ==
    (FillSucceeded /\ changed = Nil) =>
        /\ signed = GetUserOpHash(PackUserOperation(op), EntrypointAddress, cfg.chainId)
        /\ op.Signature = SignMessage(fcall.signer, AbiBytes32(signed)).sig
        /\ (fpc = "idle" /\ fcall.mode \in {"FillAndSign", "GetUserOpHash"}) =>
              /\ fres.err = <<>>
              /\ fres.hash = GetUserOpHash(PackUserOperation(op), EntrypointAddress,
                                           cfg.chainId)

\* FillAndSign has returned a record that had no signature when it was
\* handed in and holds one now
C29_Witness ==
    /\ FillSucceeded
    /\ changed = Nil
    /\ fpc = "idle"
    /\ fcall.mode = "FillAndSign"
    /\ fres.op = "userOp"
    /\ entry.op.Signature = <<>>
    /\ op.Signature # <<>>

\* the last call was made, with the same signer, on the record as the call
\* before it had returned it, and its FillAndSign has returned without error
AppliedAgain ==
    /\ entry.prior.again
    /\ entry.prior.call.signer = fcall.signer
    /\ FillSucceeded
    /\ changed = Nil

\* C30: FillAndSign applied, with the same signer, to the operation it
\* returned gives the same operation hash and the same operation, hence the
\* same packed fields
C30_Idempotent ==
    AppliedAgain =>
        /\ signed = entry.prior.hash
        /\ op = entry.op
        /\ PackUserOperation(op) = PackUserOperation(entry.op)

\* SendUserOp has filled and signed, for an account that is not deployed and
\* with a paymaster, the record GetUserOpHash had filled and signed before
C30_Witness ==
    /\ AppliedAgain
    /\ entry.prior.call.mode = "GetUserOpHash"
    /\ fcall.mode = "SendUserOp"
    /\ cfg.PaymasterAddress # NilAddress
    /\ ~deployed
    /\ op.InitCode # <<>>

(***************************************************************************)
(* Properties of the packing functions                                     *)
(***************************************************************************)
\* GetPaymasterHash returned a hash for exactly what PackPaymasterAndData
\* built from gas limits below 2^128
HashedWhatWasPacked ==
    /\ cout.fn = "GetPaymasterHash"
    /\ cout.ok
    /\ cin.drop = 0
    /\ InRange128(cin.a)
    /\ InRange128(cin.b)

C22_TooShortExactlyBelow52 ==
    cout.fn = "GetPaymasterHash" =>
        /\ cout.ok <=> Len(cout.bytes) >= 52
        /\ ~cout.ok => cout.hash = ZeroHash
        /\ cout.ok => cout.hash # ZeroHash
        /\ Len(cout.bytes) = 51 => ~cout.ok
        /\ Len(cout.bytes) = 52 => cout.ok

\* GetPaymasterHash refused a paymasterAndData of 51 bytes: address, two gas
\* limits and no payload, less the last byte
C22_Witness ==
    /\ cout.fn = "GetPaymasterHash"
    /\ Len(cout.bytes) = 51
    /\ cin.data = <<>>
    /\ cin.drop = 1
    /\ ~cout.ok

\* PackPaymasterAndData returned for gas limits below 2^128
PackedInRange ==
    /\ cout.fn = "PackPaymasterAndData"
    /\ InRange128(cin.a)
    /\ InRange128(cin.b)

\* C23: for gas limits below 2^128 PackPaymasterAndData returns
\* 52 + len(payload) bytes: the address, the two gas limits as 16-byte
\* big-endian integers, the payload
C23_PaymasterAndDataLayout ==
    PackedInRange =>
        /\ ~cout.panic
        /\ Len(cout.bytes) = 52 + Len(cin.data)
        /\ SubSeq(cout.bytes, 1, 20) = cin.paymaster
        /\ SetBytes(SubSeq(cout.bytes, 21, 36)) = cin.a
        /\ SetBytes(SubSeq(cout.bytes, 37, 52)) = cin.b
        /\ SubSeq(cout.bytes, 53, Len(cout.bytes)) = cin.data

\* a verification gas limit of 2^128 - 1, a post-op gas limit of 0 and a
\* payload that is not empty have been packed
C23_Witness ==
    /\ PackedInRange
    /\ cin.a.abs = Max128
    /\ cin.b.abs = <<>>
    /\ cin.data # <<>>

\* the 16-byte big-endian left-padded encoding of a value below 2^128
BigEndian16(x) ==
    [i \in 1..16 |-> IF i <= 16 - Len(x.abs) THEN 0 ELSE x.abs[i - (16 - Len(x.abs))]]

\* PackInt returned for arguments in [0, 2^128 - 1]
PackIntInRange ==
    /\ cout.fn = "PackInt"
    /\ InRange128(cin.a)
    /\ InRange128(cin.b)

\* C24: for a and b in [0, 2^128 - 1] PackInt(a, b) is a 32-byte word, a in
\* bytes [0:16] and b in bytes [16:32], each big-endian and left-padded
C24_PackIntWord ==
    PackIntInRange =>
        /\ ~cout.panic
        /\ Len(cout.bytes) = 32
        /\ SubSeq(cout.bytes, 1, 16) = BigEndian16(cin.a)
        /\ SubSeq(cout.bytes, 17, 32) = BigEndian16(cin.b)
        /\ SetBytes(SubSeq(cout.bytes, 1, 16)) = cin.a
        /\ SetBytes(SubSeq(cout.bytes, 17, 32)) = cin.b

\* PackInt has packed a = 2^128 - 1 and b = 0
C24_Witness ==
    /\ PackIntInRange
    /\ cin.a.abs = Max128
    /\ cin.b.abs = <<>>

SetIntoFull ==
    /\ clast.op = "Set"
    /\ clast.key \notin HeldKeys(cbefore)
    /\ Len(cbefore) = size

\* C26: Set(k, v) followed immediately by Get(k) returns (v, true); Get of a
\* key not held returns not-found; the cache never holds more than its
\* capacity; a new key put into a full cache evicts exactly the entry least
\* recently read or written; Set returns true exactly when that happened
C26_LruCache ==
    /\ Len(lru) <= size
    /\ Cardinality(HeldKeys(lru)) = Len(lru)
    /\ (clast.op = "Get" /\ cprev.op = "Set" /\ cprev.key = clast.key) =>
          clast.found /\ clast.value = cprev.value
    /\ clast.op = "Get" =>
          /\ clast.found <=> clast.key \in HeldKeys(cbefore)
          /\ HeldKeys(lru) = HeldKeys(cbefore)
    /\ clast.op = "Set" =>
          /\ clast.evicted <=> SetIntoFull
          /\ ~clast.evicted => HeldKeys(lru) = HeldKeys(cbefore) \cup {clast.key}
          /\ clast.evicted =>
                \E victim \in HeldKeys(cbefore) :
                    /\ HeldKeys(lru) = (HeldKeys(cbefore) \ {victim}) \cup {clast.key}
                    /\ \A k \in HeldKeys(cbefore) \ {victim} : used[k] > used[victim]

\* in a cache of two entries a Set evicted an entry right after a Get had
\* found the other one, which was stored first and is still held
C26_Witness ==
    /\ size = 2
    /\ clast.op = "Set"
    /\ clast.evicted
    /\ cprev.op = "Get"
    /\ cprev.found
    /\ cprev.key \in HeldKeys(lru)
    /\ cprev.key = cbefore[1].key

\* every entry of the cache is under the key of an owner and a salt and
\* holds the address of that owner and salt
CacheSound ==
    \A i \in 1..Len(lru) :
        /\ \E owner \in Owners, salt \in Salts : lru[i].key = AccountKey(owner, salt)
        /\ \A owner \in Owners, salt \in Salts :
              lru[i].key = AccountKey(owner, salt) =>
                  lru[i].value = GetAddress(owner, salt)

\* C27: with or without cache a GetAccount that succeeds returns the address
\* of its owner and salt, and one that fails has made a factory call that
\* failed; a cache hit makes no factory call, a miss makes one; a failed
\* factory call stores nothing; no entry is under the key of another pair
C27_CacheTransparent ==
    /\ (aret.proc # NoProc /\ aret.ok) => aret.addr = GetAddress(aret.owner, aret.salt)
    /\ (aret.proc # NoProc /\ ~aret.ok) => aret.addr = NoAccount /\ aret.calls = 1
    /\ aret.hit => hasCache /\ aret.ok /\ aret.calls = 0
    /\ (aret.proc # NoProc /\ ~aret.hit) => aret.calls = 1
    /\ ~hasCache => lru = <<>>
    /\ Len(lru) <= size
    /\ CacheSound

\* a cache of one entry served a hit while the other goroutine is about to
\* store the address of another pair, after two calls of the factory
C27_Witness ==
    /\ hasCache
    /\ size = 1
    /\ aret.hit
    /\ afactory >= 2
    /\ \E q \in Procs :
          /\ apc[q].pc = "set"
          /\ <<apc[q].owner, apc[q].salt>> # <<aret.owner, aret.salt>>

(***************************************************************************)
(* Termination of the wait                                                 *)
(***************************************************************************)
\* WaitForUserOperation has returned a receipt, a fetch error or "no receipt
\* found", the last only after the caller cancelled or the timeout elapsed
WaitEnded ==
    /\ wpc = "done"
    /\ outcome.kind \in {"receipt", "error", "notFound"}
    /\ outcome.kind = "receipt" <=> outcome.receipt # Nil
    /\ (outcome.kind = "notFound" /\ ~cancelled) => now >= defaultWaitTimeout

\* C31: provided every receipt fetch returns, a WaitForUserOperation that
\* was called returns, whatever the bundler answers and whether or not the
\* caller cancels: with a receipt, with a fetch error, or with "no receipt
\* found", which without a cancellation comes only once the timeout has elapsed
C31_WaitTerminates == (wpc # "idle") ~> WaitEnded

\* the wait ended with "no receipt found" after the timeout, the caller never
\* cancelled and every fetch was answered with a null receipt
C31_Witness ==
    /\ wpc = "done"
    /\ outcome.kind = "notFound"
    /\ ~cancelled
    /\ now >= defaultWaitTimeout
    /\ fetches > 0
    /\ nulls = fetches


============================================================================
